---- MODULE Spec2Model ----
(***************************************************************************)
(* Hospital management system: the DatabaseManager wrapper (src/db_util.py *)
(* and its fork src/backend/db_util.py) and the HospitalService methods    *)
(* that run on top of it (src/hospital_service.py).                        *)
(*                                                                         *)
(* The MySQL server and the pymysql cursor are the environment.  A run of  *)
(* a statement or of a stored procedure is an input: the packets the       *)
(* server answers with (result sets, OK packets, one error packet), the    *)
(* rows written inside the session's transaction, the values of the        *)
(* session variables afterwards.  Errors are raised by the steps that talk *)
(* to the server about a statement (execute, callproc, fetchall, nextset); *)
(* commit, rollback and close are taken to succeed.                        *)
(***************************************************************************)
EXTENDS Integers, Sequences, FiniteSets, TLC

\* ---------------------------------------------------------------- bounds
MaxSets == 2        \* packets a CALL answers with
MaxParams == 2      \* length of a params tuple
MaxMisc == 2        \* writes to the tables the model does not itemise
MaxClock == 2       \* values of NOW()
MaxStock == 2       \* stored_quantity of the drug
MaxMsgLen == 4      \* tokens of a signalled message

\* ------------------------------------------------------- values and errors
None == -1

\* The error codes _handle_database_error turns into DatabaseError.
CustomCodes == {1001, 1002, 1003, 1004}

\* An exception object: its class, and args as (code, message) when it has
\* two args, (message) or (code) alone when it has one.
NoExc == [type |-> "none", code |-> 0, nargs |-> 0, msg |-> <<>>]

PyMysqlError(code, nargs, msg) ==
    [type |-> "pymysql.Error", code |-> code, nargs |-> nargs, msg |-> msg]

DatabaseError(msg) ==
    [type |-> "DatabaseError", code |-> 0, nargs |-> 1, msg |-> msg]

\* Messages are sequences of tokens: "INS" is the phrase
\* 'Insufficient stock for drug', "Q" a double quote, "a" any other text.
Tokens == {"INS", "Q", "a"}

RECURSIVE SeqsUpTo(_, _)
SeqsUpTo(S, n) ==
    IF n = 0 THEN {<<>>}
    ELSE LET shorter == SeqsUpTo(S, n - 1)
         IN  shorter \cup {Append(s, x) : s \in {t \in shorter : Len(t) = n - 1}, x \in S}

Messages == SeqsUpTo(Tokens, MaxMsgLen)

\* The database errors the generic calls are exercised with.
DbErrors ==
    { PyMysqlError(c, n, m) : c \in {1001, 1004, 1644}, n \in {1, 2},
                              m \in {<<"a">>, <<"INS", "Q", "a">>} }

\* ------------------------------------------------------------------ state
VARIABLES
    db,         \* committed contents of the database
    txn,        \* contents as the connection's open transaction sees them
    now,        \* the server clock, NOW()
    conn,       \* self.connection: "open" or "closed"
    withState,  \* position of a 'with DatabaseManager(...) as db' block
    propagated, \* exception that left the last with-block
    last,       \* what the last call did and how it ended
    session     \* the browser's Flask session: role, user_id, patient_id

vars == <<db, txn, now, conn, withState, propagated, last, session>>

\* ------------------------------------- _handle_database_error (both files)
HandleMapsAll(e) ==
    IF e.code \in CustomCodes THEN DatabaseError(e.msg) ELSE e

HandleDatabaseError(e) ==
    IF e.nargs >= 2 /\ e.code \in CustomCodes
    THEN DatabaseError(e.msg)
    ELSE e

\* ------------------------------------------------------ database contents
PayIds == {1, 2, 3}
MissingPayId == 4       \* a payment_id no row has

RegIds == {1, 2}

\* The patients and doctors the desk registers, the departments, the rows
\* the doctor table can come to hold, the drugs.
Patients == {1, 2}

Doctors == {1, 2}

Departments == {1, 2}

MaxDoctors == 3

DoctorRows == 1..MaxDoctors

NoDoctor == 0

OtherDrugIds == {2, 3}

DrugIds == {1} \cup OtherDrugIds

\* A payment row: payment_type, payment_status, payment_date (0: NULL), the
\* registration it bills and, for a 'Medicine' payment, the prescribed quantity.
NoRow ==
    [present |-> FALSE, ptype |-> "none", status |-> 0, date |-> 0, reg |-> 0, qty |-> 0]

PaymentRow(ptype, reg, qty) ==
    [present |-> TRUE, ptype |-> ptype, status |-> 0, date |-> 0, reg |-> reg, qty |-> qty]

\* registration.status: 0 unpaid, 1 awaiting consultation, 2 completed;
\* NoReg: no such row.
NoReg == -1

\* connection.commit(): the transaction's contents become the database's.
CommitSkipped(s) == s

Commit(s) == [s EXCEPT !.db = s.txn, !.commits = @ + 1]

\* connection.rollback(): the transaction's pending writes are dropped.
RollbackSkipped(s) == s

Rollback(s) == [s EXCEPT !.txn = s.db, !.rollbacks = @ + 1]

\* A call starts on the connection's current transaction.
Session == [db |-> db, txn |-> txn, commits |-> 0, rollbacks |-> 0]

\* The tables the model does not itemise: a count of the rows written.
WriteMisc(t, n) == [t EXCEPT !.misc = @ + n]

\* ----------------------------------------------- execute_query (both files)
\* stmt: err, the error cursor.execute raises (NoExc: none); rows, what
\* fetchall returns.
ExecuteQuery(s, stmt) ==
    IF stmt.err = NoExc
    THEN [outcome |-> "returned", exc |-> NoExc, s |-> s, rows |-> stmt.rows]
    ELSE [outcome |-> "raised", exc |-> HandleDatabaseError(stmt.err), s |-> s,
          rows |-> <<>>]

\* ------------------------------------------- execute_non_query (both files)
\* stmt: err; affected, the row count cursor.execute returns; txnAfter, the
\* transaction's contents once the statement has run (a statement that fails
\* has written nothing: the server undoes it).
ExecuteNonQueryCommitsAnyway(s, stmt) ==
    IF stmt.err = NoExc
    THEN [outcome |-> "returned", exc |-> NoExc,
          s |-> Commit([s EXCEPT !.txn = stmt.txnAfter]), affected |-> stmt.affected]
    ELSE [outcome |-> "raised", exc |-> HandleDatabaseError(stmt.err),
          s |-> Commit([s EXCEPT !.txn = stmt.txnAfter]), affected |-> 0]

ExecuteNonQuery(s, stmt) ==
    IF stmt.err = NoExc
    THEN [outcome |-> "returned", exc |-> NoExc,
          s |-> Commit([s EXCEPT !.txn = stmt.txnAfter]), affected |-> stmt.affected]
    ELSE [outcome |-> "raised", exc |-> HandleDatabaseError(stmt.err),
          s |-> Rollback([s EXCEPT !.txn = stmt.txnAfter]), affected |-> 0]

\* --------------------------------------------------------- call_procedure
\* params: given is FALSE for params=None; vals is the tuple.
NoParams == [given |-> FALSE, vals |-> <<>>]

Params(vals) == [given |-> TRUE, vals |-> vals]

\* bool(params): None and the empty tuple are falsy.
Truthy(params) == params.given /\ Len(params.vals) > 0

\* params or ()
ParamsOrEmpty(params) == IF Truthy(params) THEN params.vals ELSE <<>>

\* A packet of the stream a CALL answers with: a result set (an OK packet
\* is a result set without rows) whose fetchall may raise fetchErr, or the
\* error packet that ends the stream.
ResultSet(rows, fetchErr) ==
    [kind |-> "rs", rows |-> rows, fetchErr |-> fetchErr, err |-> NoExc]

ErrorPacket(e) == [kind |-> "err", rows |-> <<>>, fetchErr |-> NoExc, err |-> e]

\* cursor.callproc: sets @_proc_i to the arguments, sends CALL, raises when
\* the first packet is an error, and returns the arguments it was given.
Callproc(args, run) ==
    [err |-> run.stream[1].err, ret |-> args]

\* The values of @_proc_0 .. @_proc_n-1 once the procedure has run: the
\* arguments, the last one replaced by the value the procedure assigned when
\* it is an OUT parameter.
SessionVarsAsPassed(args, run) == args

SessionVars(args, run) ==
    [i \in 1..Len(args) |->
        IF i = Len(args) /\ run.hasOut THEN run.outVal ELSE args[i]]

\* The fetchall / nextset loop, from the result set at position i on:
\* fetchall's rows are appended when there are any, an error of fetchall is
\* passed over; nextset moves to the next packet and raises when that packet
\* is an error.
RECURSIVE FetchSets(_, _, _)
FetchSets(stream, i, acc) ==
    LET cur == stream[i]
        acc1 == IF cur.fetchErr = NoExc /\ cur.rows # <<>>
                THEN Append(acc, cur.rows) ELSE acc
    IN  IF i = Len(stream) THEN [err |-> NoExc, sets |-> acc1]
        ELSE IF stream[i + 1].kind = "err" THEN [err |-> stream[i + 1].err, sets |-> acc1]
        ELSE FetchSets(stream, i + 1, acc1)

\* How a call_procedure ends.
ProcRaised(e, s) ==
    [outcome |-> "raised", exc |-> e, s |-> s, out |-> NoParams, sets |-> <<>>]

ProcReturned(out, sets, s) ==
    [outcome |-> "returned", exc |-> NoExc, s |-> s, out |-> out, sets |-> sets]

\* src/db_util.py
CallProcedure(s, params, run) ==
    LET args == ParamsOrEmpty(params)
        s1 == [s EXCEPT !.txn = run.txnAfter]
        called == Callproc(args, run)
        fetched == FetchSets(run.stream, 1, <<>>)
    IN  IF called.err # NoExc
        THEN ProcRaised(HandleDatabaseError(called.err), Rollback(s1))
        ELSE IF fetched.err # NoExc
        THEN ProcRaised(HandleDatabaseError(fetched.err), Rollback(s1))
        ELSE ProcReturned(Params(called.ret), fetched.sets, Commit(s1))

\* cursor.execute of a new statement on a cursor that still has packets of
\* the CALL pending: it reads them all first (nextset until there is none),
\* so an error packet among them is raised here; then the statement runs.
DrainErr(stream) ==
    IF stream[Len(stream)].kind = "err" THEN stream[Len(stream)].err ELSE NoExc

\* src/backend/db_util.py
CallProcedureBackend(s, params, run) ==
    LET args == ParamsOrEmpty(params)
        s1 == [s EXCEPT !.txn = run.txnAfter]
        called == Callproc(args, run)
        fetched == FetchSets(run.stream, 1, <<>>)
    IN  IF called.err # NoExc
        THEN ProcRaised(called.err, Rollback(s1))
        ELSE IF Truthy(params)
        THEN \* SELECT @_proc_0, ...: the CALL's packets are read and dropped,
             \* fetchone takes the only row, fetchall finds no row left and
             \* nextset no further packet.
             IF DrainErr(run.stream) # NoExc
             THEN ProcRaised(DrainErr(run.stream), Rollback(s1))
             ELSE IF run.selectErr # NoExc
             THEN ProcRaised(run.selectErr, Rollback(s1))
             ELSE ProcReturned(Params(SessionVars(args, run)), <<>>, Commit(s1))
        ELSE IF fetched.err # NoExc
        THEN ProcRaised(fetched.err, Rollback(s1))
        ELSE ProcReturned(params, fetched.sets, Commit(s1))

\* -------------------------------------------------- close, __enter__, __exit__
\* close(): 'if self.connection: self.connection.close()'.
Close(c) == "closed"

\* __exit__(exc_type, exc_val, exc_tb): closes, and returns None, which is
\* falsy, so the exception of the block (exc, NoExc on a normal exit) goes on.
ExitSwallows(c, exc) == [conn |-> Close(c), propagated |-> NoExc]

Exit(c, exc) == [conn |-> Close(c), propagated |-> exc]

\* ------------------------------------------------------- inputs of the calls
RowSets == {<<>>, <<"r1">>, <<"r1", "r2">>}

\* The error fetchall raises when it raises one.
FetchErrors == {PyMysqlError(1001, 2, <<"a">>)}

\* The error packets a stream is exercised with.
StreamErrors ==
    {PyMysqlError(1001, 2, <<"a">>), PyMysqlError(1644, 2, <<"a">>),
     PyMysqlError(1002, 1, <<"a">>)}

StreamSets == {ResultSet(r, f) : r \in RowSets, f \in {NoExc} \cup FetchErrors}

StreamPackets == StreamSets \cup {ErrorPacket(e) : e \in StreamErrors}

\* A stream has at least one packet, and an error packet is its last one.
Streams ==
    {st \in SeqsUpTo(StreamPackets, MaxSets) :
        /\ Len(st) >= 1
        /\ \A i \in 1..(Len(st) - 1) : st[i].kind = "rs"}

\* IN parameters carry a value; the last parameter may be passed as None.
ParamTuples ==
    {v \in SeqsUpTo({None, 5}, MaxParams) : \A i \in 1..(Len(v) - 1) : v[i] = 5}

ParamInputs == {NoParams} \cup {Params(v) : v \in ParamTuples}

OutValues == {7}

\* A run of a stored procedure that writes n rows to the tables the model
\* does not itemise.
GenericRuns(t) ==
    {[stream |-> st, hasOut |-> h, outVal |-> IF h THEN v ELSE None,
      selectErr |-> se, txnAfter |-> WriteMisc(t, n)] :
        st \in Streams, h \in BOOLEAN, v \in OutValues,
        se \in {NoExc, PyMysqlError(2013, 2, <<"a">>)},
        n \in {k \in 0..1 : t.misc + k <= MaxMisc}}

\* ------------------------------------------------------ record of a call
IdleResult ==
    [success |-> FALSE, message |-> <<>>, hasDrug |-> FALSE, drug_name |-> <<>>,
     error_type |-> "none"]

Idle ==
    [op |-> "none", file |-> "none", outcome |-> "none", exc |-> NoExc,
     commits |-> 0, rollbacks |-> 0, affected |-> 0, rows |-> <<>>,
     out |-> NoParams, sets |-> <<>>, params |-> NoParams,
     stream |-> <<>>, hasOut |-> FALSE, outVal |-> None, selectErr |-> NoExc,
     stmtErr |-> NoExc, stmtAffected |-> 0, payment_id |-> 0, result |-> IdleResult,
     svc |-> [wrapper |-> "none"]]

\* --------------------------------------------------------------- Init
EmptyDb ==
    [payment |-> [p \in PayIds |-> NoRow], registration |-> [r \in RegIds |-> NoReg],
     stock |-> MaxStock, misc |-> 0,
     amount |-> [p \in PayIds |-> 0],
     regPatient |-> [r \in RegIds |-> 0], regDoctor |-> [r \in RegIds |-> 0],
     regAt |-> [r \in RegIds |-> 0],
     shelf |-> [d \in OtherDrugIds |-> 10],
     regDept |-> [r \in RegIds |-> 0],
     patient |-> Patients, department |-> Departments, drug |-> DrugIds,
     doctor |-> [d \in DoctorRows |-> IF d \in Doctors THEN 1 ELSE NoDoctor],
     doctorSeq |-> Cardinality(Doctors)]

Init ==
    /\ db = EmptyDb
    /\ txn = db
    /\ now = 1
    /\ conn = "open"
    /\ withState = [pos |-> "none", exc |-> NoExc]
    /\ propagated = NoExc
    /\ last = Idle
    /\ session = [role |-> "<absent>", user_id |-> "<absent>", patient_id |-> None]

\* ---------------------------------------------- actions: the wrapper's calls
ExecuteQueryCall ==
    /\ conn = "open"
    /\ last.op = "none"
    /\ \E e \in {NoExc} \cup DbErrors, rows \in RowSets :
         LET r == ExecuteQuery(Session, [err |-> e, rows |-> rows])
         IN  /\ db' = r.s.db
             /\ txn' = r.s.txn
             /\ last' = [Idle EXCEPT !.op = "execute_query", !.file = "db_util",
                            !.outcome = r.outcome, !.exc = r.exc,
                            !.commits = r.s.commits, !.rollbacks = r.s.rollbacks,
                            !.rows = r.rows, !.stmtErr = e]
    /\ UNCHANGED <<now, conn, withState, propagated, session>>

ExecuteNonQueryCall ==
    /\ conn = "open"
    /\ last.op = "none"
    /\ \E e \in {NoExc} \cup DbErrors, n \in 0..1 :
         /\ txn.misc + n <= MaxMisc
         /\ LET r == ExecuteNonQuery(Session,
                        [err |-> e, affected |-> n,
                         txnAfter |-> IF e = NoExc THEN WriteMisc(txn, n) ELSE txn])
            IN  /\ db' = r.s.db
                /\ txn' = r.s.txn
                /\ last' = [Idle EXCEPT !.op = "execute_non_query", !.file = "db_util",
                               !.outcome = r.outcome, !.exc = r.exc,
                               !.commits = r.s.commits, !.rollbacks = r.s.rollbacks,
                               !.affected = r.affected, !.stmtErr = e,
                               !.stmtAffected = n]
    /\ UNCHANGED <<now, conn, withState, propagated, session>>

ProcLast(file, params, run, r) ==
    [Idle EXCEPT !.op = "call_procedure", !.file = file,
        !.outcome = r.outcome, !.exc = r.exc,
        !.commits = r.s.commits, !.rollbacks = r.s.rollbacks,
        !.out = r.out, !.sets = r.sets, !.params = params,
        !.stream = run.stream, !.hasOut = run.hasOut, !.outVal = run.outVal,
        !.selectErr = run.selectErr]

CallProcedureCall ==
    /\ conn = "open"
    /\ last.op = "none"
    /\ \E params \in ParamInputs, run \in GenericRuns(txn) :
         LET r == CallProcedure(Session, params, run)
         IN  /\ db' = r.s.db
             /\ txn' = r.s.txn
             /\ last' = ProcLast("db_util", params, run, r)
    /\ UNCHANGED <<now, conn, withState, propagated, session>>

CallProcedureBackendCall ==
    /\ conn = "open"
    /\ last.op = "none"
    /\ \E params \in ParamInputs, run \in GenericRuns(txn) :
         LET r == CallProcedureBackend(Session, params, run)
         IN  /\ db' = r.s.db
             /\ txn' = r.s.txn
             /\ last' = ProcLast("backend/db_util", params, run, r)
    /\ UNCHANGED <<now, conn, withState, propagated, session>>

\* ------------------------------------------ actions: the connection's life
\* DatabaseManager(config), outside or at the head of a with statement.
Connect ==
    /\ conn = "closed"
    /\ conn' = "open"
    /\ txn' = db
    /\ withState' = [pos |-> "none", exc |-> NoExc]
    /\ propagated' = NoExc
    /\ UNCHANGED <<db, now, last, session>>

EnterWith ==
    /\ conn = "open"
    /\ withState.pos = "none"
    /\ withState' = [pos |-> "inside", exc |-> NoExc]
    /\ UNCHANGED <<db, txn, now, conn, propagated, last, session>>

\* The block is left: normally, with the exception its last call raised, or
\* with an exception of its own code.
BlockExceptions ==
    {NoExc, [type |-> "ValueError", code |-> 0, nargs |-> 1, msg |-> <<"a">>]}
        \cup (IF last.outcome = "raised" THEN {last.exc} ELSE {})

ExitWith ==
    /\ withState.pos = "inside"
    /\ \E e \in BlockExceptions :
         LET x == Exit(conn, e)
         IN  /\ conn' = x.conn
             /\ propagated' = x.propagated
             /\ withState' = [pos |-> "left", exc |-> e]
    /\ UNCHANGED <<db, txn, now, last, session>>

CloseCall ==
    /\ conn = "open"
    /\ withState.pos = "none"
    /\ conn' = Close(conn)
    /\ UNCHANGED <<db, txn, now, withState, propagated, last, session>>

\* The caller has taken the result of the call; its record is dropped.
Return ==
    /\ last.op # "none"
    /\ last' = Idle
    /\ UNCHANGED <<db, txn, now, conn, withState, propagated, session>>

NextDb ==
    \/ Return
    \/ ExecuteQueryCall
    \/ ExecuteNonQueryCall
    \/ CallProcedureCall
    \/ CallProcedureBackendCall
    \/ Connect
    \/ EnterWith
    \/ ExitWith
    \/ CloseCall

SpecDb == Init /\ [][NextDb]_vars

\* ============================================== the hospital's tables
\* The stored procedures and triggers of the schema.

\* The key AUTO_INCREMENT gives the next row of a table.
NextPayId(t) == CHOOSE p \in PayIds :
    /\ ~t.payment[p].present
    /\ \A q \in PayIds : ~t.payment[q].present => p <= q

NextRegId(t) == CHOOSE r \in RegIds :
    /\ t.registration[r] = NoReg
    /\ \A q \in RegIds : t.registration[q] = NoReg => r <= q

\* sp_submit_registration: a registration in status 0 and its unpaid
\* 'Registration' payment; OUT: the registration_id.
SpSubmitRegistration(t) ==
    [t EXCEPT !.registration[NextRegId(t)] = 0,
              !.payment[NextPayId(t)] = PaymentRow("Registration", NextRegId(t), 0)]

\* sp_create_prescription: a prescription of qty units of the drug for a
\* registration and its unpaid 'Medicine' payment; OUT: the payment_id.
SpCreatePrescription(t, r, qty) ==
    [t EXCEPT !.payment[NextPayId(t)] = PaymentRow("Medicine", r, qty)]

\* The trigger on payment: paying a 'Medicine' payment takes the prescribed
\* quantity out of the drug's stock and signals when the stock is short;
\* paying a 'Registration' payment moves the registration to status 1.
Shortfall(t, row) ==
    row.status = 0 /\ row.ptype = "Medicine" /\ t.stock < row.qty

Contains(m, tok) == \E i \in 1..Len(m) : m[i] = tok

ShortfallSignals ==
    {PyMysqlError(c, 2, m) : c \in CustomCodes, m \in {x \in Messages : Contains(x, "INS")}}

\* What else an UPDATE of a payment row may fail with: a signal of another
\* rule of the schema, a lock wait timeout.
OtherSignals == {PyMysqlError(1003, 2, <<"a">>), PyMysqlError(1205, 2, <<"a">>)}

PaymentTrigger(t, row) ==
    IF row.status # 0 THEN t
    ELSE IF row.ptype = "Medicine" THEN [t EXCEPT !.stock = @ - row.qty]
    ELSE IF t.registration[row.reg] = 0 THEN [t EXCEPT !.registration[row.reg] = 1]
    ELSE t

\* ==================================================== HospitalService
\* UPDATE payment SET payment_status = 1, payment_date = NOW()
\* WHERE payment_id = %s, as the statement execute_non_query is given: sig is
\* the error the server answers with (NoExc: none), the row count is the
\* number of rows whose values changed.
UpdatePayment(t, pid, clock, sig) ==
    IF pid \notin PayIds \/ ~t.payment[pid].present
    THEN [err |-> NoExc, affected |-> 0, txnAfter |-> t]
    ELSE IF sig # NoExc
    THEN [err |-> sig, affected |-> 0, txnAfter |-> t]
    ELSE LET row == t.payment[pid]
             new == [row EXCEPT !.status = 1, !.date = clock]
         IN  [err |-> NoExc,
              affected |-> IF new # row THEN 1 ELSE 0,
              txnAfter |-> [PaymentTrigger(t, row) EXCEPT !.payment[pid] = new]]

\* str(e)
StrOf(e) ==
    IF e.nargs >= 2
    THEN <<"(", ToString(e.code), ", ">> \o e.msg \o <<")">>
    ELSE e.msg

\* error_msg.index('"', from): the first quote at or after from, 0 for the
\* ValueError of a missing one.
IndexOfQuote(m, from) ==
    IF \E i \in from..Len(m) : m[i] = "Q"
    THEN CHOOSE i \in from..Len(m) : m[i] = "Q" /\ \A j \in from..(i - 1) : m[j] # "Q"
    ELSE 0

Unknown == <<"Unknown">>

\* start = index('"') + 1; end = index('"', start); error_msg[start:end]
ExtractDrugNameKeepsQuote(m) ==
    LET q1 == IndexOfQuote(m, 1)
        q2 == IndexOfQuote(m, q1 + 1)
    IN  IF q1 = 0 \/ q2 = 0 THEN Unknown ELSE SubSeq(m, q1, q2 - 1)

ExtractDrugName(m) ==
    LET q1 == IndexOfQuote(m, 1)
        q2 == IndexOfQuote(m, q1 + 1)
    IN  IF q1 = 0 \/ q2 = 0 THEN Unknown ELSE SubSeq(m, q1 + 1, q2 - 1)

NotFoundMessage(pid) == <<"Payment ID ", ToString(pid), " not found or already paid">>

SuccessMessage == <<"Payment processed successfully">>

\* How a pay_bill ends.
BillReturned(r, result) ==
    [outcome |-> "returned", exc |-> NoExc, s |-> r.s, result |-> result]

BillRaised(r, e) ==
    [outcome |-> "raised", exc |-> e, s |-> r.s, result |-> IdleResult]

\* src/hospital_service.py, pay_bill
PayBillIgnoresAffected(s, pid, clock, sig) ==
    LET r == ExecuteNonQuery(s, UpdatePayment(s.txn, pid, clock, sig))
    IN  IF r.outcome = "returned"
        THEN BillReturned(r, [IdleResult EXCEPT !.success = TRUE, !.message = SuccessMessage])
        ELSE BillRaised(r, r.exc)

PayBill(s, pid, clock, sig) ==
    LET r == ExecuteNonQuery(s, UpdatePayment(s.txn, pid, clock, sig))
        error_msg == StrOf(r.exc)
    IN  IF r.outcome = "returned"
        THEN IF r.affected = 0
             THEN BillReturned(r, [IdleResult EXCEPT !.message = NotFoundMessage(pid)])
             ELSE BillReturned(r, [IdleResult EXCEPT !.success = TRUE,
                                                     !.message = SuccessMessage])
        ELSE IF r.exc.type = "DatabaseError"
        THEN IF Contains(error_msg, "INS")
             THEN BillReturned(r, [success |-> FALSE, message |-> error_msg,
                                   hasDrug |-> TRUE,
                                   drug_name |-> ExtractDrugName(error_msg),
                                   error_type |-> "inventory_shortfall"])
             ELSE BillRaised(r, DatabaseError(<<"Payment processing failed: ">> \o error_msg))
        ELSE BillRaised(r, [type |-> "pymysql.Error", code |-> 0, nargs |-> 1,
                            msg |-> <<"Database error during payment processing: ">>
                                        \o error_msg])

\* --------------------------------------------- actions: the service's calls
\* The errors the server answers the UPDATE of pay_bill with.
Signals(t, pid) ==
    IF pid \notin PayIds \/ ~t.payment[pid].present THEN {NoExc}
    ELSE IF Shortfall(t, t.payment[pid]) THEN ShortfallSignals
    ELSE {NoExc} \cup OtherSignals

PayBillCall ==
    /\ conn = "open"
    /\ last.op = "none"
    /\ \E pid \in PayIds \cup {MissingPayId} : \E sig \in Signals(txn, pid) :
         LET r == PayBill(Session, pid, now, sig)
         IN  /\ db' = r.s.db
             /\ txn' = r.s.txn
             /\ last' = [Idle EXCEPT !.op = "pay_bill", !.file = "hospital_service",
                            !.outcome = r.outcome, !.exc = r.exc,
                            !.commits = r.s.commits, !.rollbacks = r.s.rollbacks,
                            !.stmtErr = sig, !.payment_id = pid, !.result = r.result]
    /\ UNCHANGED <<now, conn, withState, propagated, session>>

\* A run of a stored procedure of the schema: one OK packet, the OUT
\* parameter assigned, the rows written in the transaction.
SchemaRun(outVal, txnAfter) ==
    [stream |-> <<ResultSet(<<>>, NoExc)>>, hasOut |-> TRUE, outVal |-> outVal,
     selectErr |-> NoExc, txnAfter |-> txnAfter]

\* db.call_procedure('sp_submit_registration', (patient_id, 1, 1, 'Cash', None))
SubmitRegistrationCall ==
    /\ conn = "open"
    /\ last.op = "none"
    /\ \E r \in RegIds : txn.registration[r] = NoReg
    /\ \E p \in PayIds : ~txn.payment[p].present
    /\ LET params == Params(<<5, 1, 1, 5, None>>)
           run == SchemaRun(NextRegId(txn), SpSubmitRegistration(txn))
           r == CallProcedure(Session, params, run)
       IN  /\ db' = r.s.db
           /\ txn' = r.s.txn
           /\ last' = ProcLast("db_util", params, run, r)
    /\ UNCHANGED <<now, conn, withState, propagated, session>>

\* db.call_procedure('sp_create_prescription',
\*                   (registration_id, drug_id, qty, '1 tablet', 7, 'Test', 'Cash', None))
CreatePrescriptionCall ==
    /\ conn = "open"
    /\ last.op = "none"
    /\ \E p \in PayIds : ~txn.payment[p].present
    /\ \E reg \in RegIds, qty \in 1..MaxStock :
         /\ txn.registration[reg] # NoReg
         /\ LET params == Params(<<reg, 1, qty, 5, 7, 5, 5, None>>)
                run == SchemaRun(NextPayId(txn), SpCreatePrescription(txn, reg, qty))
                r == CallProcedure(Session, params, run)
            IN  /\ db' = r.s.db
                /\ txn' = r.s.txn
                /\ last' = ProcLast("db_util", params, run, r)
    /\ UNCHANGED <<now, conn, withState, propagated, session>>

\* db.execute_non_query("UPDATE drug SET stored_quantity = %s WHERE drug_id = %s", ...)
SetStockCall ==
    /\ conn = "open"
    /\ last.op = "none"
    /\ \E n \in 0..MaxStock :
         LET affected == IF txn.stock = n THEN 0 ELSE 1
             r == ExecuteNonQuery(Session,
                     [err |-> NoExc, affected |-> affected,
                      txnAfter |-> [txn EXCEPT !.stock = n]])
         IN  /\ db' = r.s.db
             /\ txn' = r.s.txn
             /\ last' = [Idle EXCEPT !.op = "execute_non_query", !.file = "db_util",
                            !.outcome = r.outcome, !.exc = r.exc,
                            !.commits = r.s.commits, !.rollbacks = r.s.rollbacks,
                            !.affected = r.affected, !.stmtAffected = affected]
    /\ UNCHANGED <<now, conn, withState, propagated, session>>

\* The server's clock moves on.
Tick ==
    /\ now < MaxClock
    /\ now' = now + 1
    /\ UNCHANGED <<db, txn, conn, withState, propagated, last, session>>

Next ==
    \/ Return
    \/ Tick
    \/ SubmitRegistrationCall
    \/ CreatePrescriptionCall
    \/ SetStockCall
    \/ PayBillCall

Spec == Init /\ [][Next]_vars

\* ===================================== HospitalService: the clinic's workflow
MaxDrugs == 2

\* The DatabaseManager a HospitalService runs on: 'from db_util import
\* DatabaseManager' finds src/db_util.py beside src/hospital_service.py and
\* src/backend/db_util.py beside src/backend/app.py.
Wrappers == {"db_util", "backend/db_util"}

CallProcedureOf(wrapper, s, params, run) ==
    IF wrapper = "db_util"
    THEN CallProcedure(s, params, run)
    ELSE CallProcedureBackend(s, params, run)

\* execute_query of either file on a SELECT: its rows, or the error the
\* server answers with.
QueryErrors == {NoExc, PyMysqlError(2013, 2, <<"a">>)}

\* The ids of a set, in ascending order.
RECURSIVE Ascending(_)
Ascending(S) ==
    IF S = {} THEN <<>>
    ELSE LET m == CHOOSE x \in S : \A y \in S : x <= y
         IN  <<m>> \o Ascending(S \ {m})

\* The registration fee sp_submit_registration bills.
RegistrationFee == 5

\* sp_submit_registration refuses a patient who has an open registration
\* with the same doctor.
DuplicateRegistration(t, patient, doc) ==
    \E r \in RegIds :
        /\ t.registration[r] \in {0, 1}
        /\ t.regPatient[r] = patient /\ t.regDoctor[r] = doc

DuplicateSignal == PyMysqlError(1001, 2, <<"a">>)

\* sp_submit_registration(patient_id, dept_id, doc_id, payment_method,
\* OUT registration_id) at the time clock.
SpSubmitRegistrationFor(t, patient, dept, doc, clock) ==
    [SpSubmitRegistration(t) EXCEPT !.regPatient[NextRegId(t)] = patient,
                                    !.regDept[NextRegId(t)] = dept,
                                    !.regDoctor[NextRegId(t)] = doc,
                                    !.regAt[NextRegId(t)] = clock,
                                    !.amount[NextPayId(t)] = RegistrationFee]

\* A run of a stored procedure the server answers with an error.
FailedRun(e, t) ==
    [stream |-> <<ErrorPacket(e)>>, hasOut |-> FALSE, outVal |-> None,
     selectErr |-> NoExc, txnAfter |-> t]

\* The registration's foreign keys: its patient, department and doctor exist.
NoReferencedRow == PyMysqlError(1452, 2, <<"a">>)

DoctorExists(t, doc) == doc \in DoctorRows /\ t.doctor[doc] # NoDoctor

SubmitRegistrationRun(t, patient, dept, doc, clock) ==
    IF DuplicateRegistration(t, patient, doc)
    THEN FailedRun(DuplicateSignal, t)
    ELSE IF patient \notin t.patient \/ dept \notin t.department \/ ~DoctorExists(t, doc)
    THEN FailedRun(NoReferencedRow, t)
    ELSE SchemaRun(NextRegId(t), SpSubmitRegistrationFor(t, patient, dept, doc, clock))

\* SELECT amount FROM payment WHERE registration_id = %s
\*   AND payment_type = 'Registration' AND payment_status = 0
\* (a NULL registration_id equals no row's).
PaymentQuery(t, registration_id) ==
    IF registration_id = None THEN <<>>
    ELSE LET ids == {p \in PayIds :
                        /\ t.payment[p].present
                        /\ t.payment[p].reg = registration_id
                        /\ t.payment[p].ptype = "Registration"
                        /\ t.payment[p].status = 0}
         IN  [i \in 1..Cardinality(ids) |-> [amount |-> t.amount[Ascending(ids)[i]]]]

\* except DatabaseError as e: raise DatabaseError(f"<context>: {e}")
\* except pymysql.Error as e: raise pymysql.Error(f"<context>: {e}")
Reraised(e, dbContext, context) ==
    IF e.type = "DatabaseError"
    THEN DatabaseError(<<dbContext>> \o StrOf(e))
    ELSE [type |-> "pymysql.Error", code |-> 0, nargs |-> 1,
          msg |-> <<context>> \o StrOf(e)]

\* out_params[-1]
LastOf(out) == out.vals[Len(out.vals)]

\* src/hospital_service.py, register_patient; queryErr is the error the
\* server answers the payment query with.
RegisterPatient(wrapper, s, patient_id, dept_id, doc_id, clock, queryErr) ==
    LET params == Params(<<patient_id, dept_id, doc_id, None, None>>)
        run == SubmitRegistrationRun(s.txn, patient_id, dept_id, doc_id, clock)
        called == CallProcedureOf(wrapper, s, params, run)
        registration_id == LastOf(called.out)
        payment_result ==
            ExecuteQuery(called.s, [err |-> queryErr,
                                    rows |-> PaymentQuery(called.s.txn, registration_id)])
        failed(e, s1) ==
            [outcome |-> "raised", s |-> s1, params |-> params, run |-> run,
             exc |-> Reraised(e, "Registration failed: ",
                              "Database error during registration: "),
             registration_id |-> None, pending_amount |-> 0]
    IN  IF called.outcome = "raised" THEN failed(called.exc, called.s)
        ELSE IF payment_result.outcome = "raised"
        THEN failed(payment_result.exc, payment_result.s)
        ELSE [outcome |-> "returned", s |-> payment_result.s, params |-> params,
              run |-> run, exc |-> NoExc,
              registration_id |-> registration_id,
              pending_amount |-> IF payment_result.rows # <<>>
                                 THEN payment_result.rows[1].amount ELSE 0]

RegisterPatientIn(depts) ==
    /\ conn = "open"
    /\ last.op = "none"
    /\ \E r \in RegIds : txn.registration[r] = NoReg
    /\ \E p \in PayIds : ~txn.payment[p].present
    /\ \E wrapper \in Wrappers, patient \in Patients, doc \in Doctors,
          dept \in depts, queryErr \in QueryErrors :
         LET r == RegisterPatient(wrapper, Session, patient, dept, doc, now, queryErr)
         IN  /\ db' = r.s.db
             /\ txn' = r.s.txn
             /\ last' = [Idle EXCEPT !.op = "register_patient",
                            !.file = "hospital_service",
                            !.outcome = r.outcome, !.exc = r.exc,
                            !.commits = r.s.commits, !.rollbacks = r.s.rollbacks,
                            !.params = r.params, !.stream = r.run.stream,
                            !.hasOut = r.run.hasOut, !.outVal = r.run.outVal,
                            !.stmtErr = queryErr,
                            !.svc = [wrapper |-> wrapper, patient_id |-> patient,
                                     doc_id |-> doc,
                                     registration_id |-> r.registration_id,
                                     pending_amount |-> r.pending_amount]]
    /\ UNCHANGED <<now, conn, withState, propagated, session>>

\* The desk of the clinic registers for department 1.
RegisterPatientCall == RegisterPatientIn({1})

\* sp_finish_consultation(reg_id, drug_id, quantity, dosage, duration_days,
\* notes, payment_method, OUT payment_id): refused unless the registration
\* is awaiting consultation or already in consultation; writes the
\* prescription and its unpaid 'Medicine' payment and closes the
\* registration (status 2).
ConsultationSignal == PyMysqlError(1002, 2, <<"a">>)

CanConsult(t, reg_id) == reg_id \in RegIds /\ t.registration[reg_id] \in {1, 2}

SpFinishConsultation(t, reg_id, quantity) ==
    [SpCreatePrescription(t, reg_id, quantity) EXCEPT !.registration[reg_id] = 2]

FinishConsultationRun(t, reg_id, quantity) ==
    IF CanConsult(t, reg_id)
    THEN SchemaRun(NextPayId(t), SpFinishConsultation(t, reg_id, quantity))
    ELSE FailedRun(ConsultationSignal, t)

\* The drug lists submit_diagnosis is exercised with.
Drugs == {[drug_id |-> 1, quantity |-> q] : q \in 1..MaxStock}

DrugLists == SeqsUpTo(Drugs, MaxDrugs)

\* src/hospital_service.py, submit_diagnosis: the loop over drug_list from
\* the drugs still to do, acc holding payment_ids, the calls made and the
\* payment id each call's procedure assigned to its OUT parameter.
RECURSIVE DiagnosisLoop(_, _, _, _, _)
DiagnosisLoop(wrapper, s, reg_id, todo, acc) ==
    IF todo = <<>>
    THEN [outcome |-> "returned", exc |-> NoExc, s |-> s,
          payment_ids |-> acc.payment_ids, calls |-> acc.calls,
          produced |-> acc.produced]
    ELSE LET drug == Head(todo)
             params == Params(<<reg_id, drug.drug_id, drug.quantity, 5, 7, 5, None, None>>)
             run == FinishConsultationRun(s.txn, reg_id, drug.quantity)
             called == CallProcedureOf(wrapper, s, params, run)
             calls == Append(acc.calls, params.vals)
         IN  IF called.outcome = "raised"
             THEN [outcome |-> "raised", s |-> called.s,
                   exc |-> Reraised(called.exc, "Diagnosis submission failed: ",
                                    "Database error during diagnosis submission: "),
                   payment_ids |-> <<>>, calls |-> calls, produced |-> acc.produced]
             ELSE DiagnosisLoop(wrapper, called.s, reg_id, Tail(todo),
                      [payment_ids |-> Append(acc.payment_ids, LastOf(called.out)),
                       calls |-> calls,
                       produced |-> Append(acc.produced, run.outVal)])

SubmitDiagnosisWithoutCalls(wrapper, s, reg_id, drug_list) ==
    DiagnosisLoop(wrapper, s, reg_id, <<>>,
                  [payment_ids |-> <<>>, calls |-> <<>>, produced |-> <<>>])

SubmitDiagnosis(wrapper, s, reg_id, drug_list) ==
    DiagnosisLoop(wrapper, s, reg_id, drug_list,
                  [payment_ids |-> <<>>, calls |-> <<>>, produced |-> <<>>])

FreePayIds(t) == {p \in PayIds : ~t.payment[p].present}

SubmitDiagnosisCall ==
    /\ conn = "open"
    /\ last.op = "none"
    /\ \E wrapper \in Wrappers, reg \in RegIds, drug_list \in DrugLists :
         /\ txn.registration[reg] # NoReg
         /\ Len(drug_list) <= Cardinality(FreePayIds(txn))
         /\ LET r == SubmitDiagnosis(wrapper, Session, reg, drug_list)
            IN  /\ db' = r.s.db
                /\ txn' = r.s.txn
                /\ last' = [Idle EXCEPT !.op = "submit_diagnosis",
                               !.file = "hospital_service",
                               !.outcome = r.outcome, !.exc = r.exc,
                               !.commits = r.s.commits, !.rollbacks = r.s.rollbacks,
                               !.svc = [wrapper |-> wrapper, reg_id |-> reg,
                                        drug_list |-> drug_list,
                                        payment_ids |-> r.payment_ids,
                                        calls |-> r.calls,
                                        produced |-> r.produced]]
    /\ UNCHANGED <<now, conn, withState, propagated, session>>

\* SELECT ... FROM payment p JOIN registration r ON p.registration_id =
\* r.registration_id ... WHERE r.patient_id = %s AND p.payment_status = 0
\* ORDER BY p.created_at: the rows, oldest payment first (payment_id grows
\* with created_at).
PendingPaymentsQueryAnyStatus(t, patient_id) ==
    LET ids == {p \in PayIds :
                   /\ t.payment[p].present
                   /\ t.payment[p].reg \in RegIds
                   /\ t.registration[t.payment[p].reg] # NoReg
                   /\ t.regPatient[t.payment[p].reg] = patient_id}
    IN  [i \in 1..Cardinality(ids) |->
            LET p == Ascending(ids)[i]
            IN  [payment_id |-> p, registration_id |-> t.payment[p].reg,
                 payment_type |-> t.payment[p].ptype, amount |-> t.amount[p],
                 payment_status |-> t.payment[p].status,
                 doctor_id |-> t.regDoctor[t.payment[p].reg]]]

PendingPaymentsQuery(t, patient_id) ==
    LET ids == {p \in PayIds :
                   /\ t.payment[p].present
                   /\ t.payment[p].reg \in RegIds
                   /\ t.registration[t.payment[p].reg] # NoReg
                   /\ t.regPatient[t.payment[p].reg] = patient_id
                   /\ t.payment[p].status = 0}
    IN  [i \in 1..Cardinality(ids) |->
            LET p == Ascending(ids)[i]
            IN  [payment_id |-> p, registration_id |-> t.payment[p].reg,
                 payment_type |-> t.payment[p].ptype, amount |-> t.amount[p],
                 payment_status |-> t.payment[p].status,
                 doctor_id |-> t.regDoctor[t.payment[p].reg]]]

\* src/hospital_service.py, get_pending_payments
GetPendingPayments(s, patient_id, queryErr) ==
    ExecuteQuery(s, [err |-> queryErr, rows |-> PendingPaymentsQuery(s.txn, patient_id)])

GetPendingPaymentsCall ==
    /\ conn = "open"
    /\ last.op = "none"
    /\ \E patient \in Patients, queryErr \in QueryErrors :
         LET r == GetPendingPayments(Session, patient, queryErr)
         IN  last' = [Idle EXCEPT !.op = "get_pending_payments",
                         !.file = "hospital_service",
                         !.outcome = r.outcome, !.exc = r.exc, !.rows = r.rows,
                         !.stmtErr = queryErr,
                         !.svc = [wrapper |-> "any", patient_id |-> patient]]
    /\ UNCHANGED <<db, txn, now, conn, withState, propagated, session>>

\* SELECT ... FROM registration r JOIN patient p ON r.patient_id =
\* p.patient_id WHERE r.doctor_id = %s AND r.status = 1
\* ORDER BY r.registration_date, r.registration_time: the orders the server
\* may give the rows in (rows of one date and time come in any order).
Orderings(ids, t) ==
    {q \in SeqsUpTo(RegIds, Cardinality(RegIds)) :
        /\ Len(q) = Cardinality(ids)
        /\ {q[i] : i \in 1..Len(q)} = ids
        /\ \A i \in 1..(Len(q) - 1) : t.regAt[q[i]] <= t.regAt[q[i + 1]]}

WaitingRows(q, t) ==
    [i \in 1..Len(q) |->
        [registration_id |-> q[i], patient_id |-> t.regPatient[q[i]],
         registered_at |-> t.regAt[q[i]], status |-> t.registration[q[i]]]]

WaitingListQueryAnyStatus(t, doctor_id) ==
    {WaitingRows(q, t) :
        q \in Orderings({r \in RegIds : /\ t.registration[r] # NoReg
                                        /\ t.regDoctor[r] = doctor_id}, t)}

WaitingListQuery(t, doctor_id) ==
    {WaitingRows(q, t) :
        q \in Orderings({r \in RegIds : /\ t.registration[r] # NoReg
                                        /\ t.regPatient[r] \in Patients
                                        /\ t.regDoctor[r] = doctor_id
                                        /\ t.registration[r] = 1}, t)}

\* src/hospital_service.py, get_waiting_list; rows is the answer the server
\* gives, one of WaitingListQuery.
GetWaitingList(s, rows, queryErr) ==
    ExecuteQuery(s, [err |-> queryErr, rows |-> rows])

GetWaitingListCall ==
    /\ conn = "open"
    /\ last.op = "none"
    /\ \E doc \in Doctors, queryErr \in QueryErrors :
         \E rows \in WaitingListQuery(txn, doc) :
            LET r == GetWaitingList(Session, rows, queryErr)
            IN  last' = [Idle EXCEPT !.op = "get_waiting_list",
                            !.file = "hospital_service",
                            !.outcome = r.outcome, !.exc = r.exc, !.rows = r.rows,
                            !.stmtErr = queryErr,
                            !.svc = [wrapper |-> "any", doctor_id |-> doc]]
    /\ UNCHANGED <<db, txn, now, conn, withState, propagated, session>>

NextClinic ==
    \/ Return
    \/ Tick
    \/ RegisterPatientCall
    \/ PayBillCall
    \/ SubmitDiagnosisCall
    \/ GetPendingPaymentsCall
    \/ GetWaitingListCall

SpecClinic == Init /\ [][NextClinic]_vars

\* =========================================== HospitalService: the pharmacy
\* The drug table: drug 1 is the drug the prescriptions take from, with
\* stored_quantity db.stock; the other drugs stand around the default alert
\* threshold.
ShelfLevels == {9, 10, 11}

StoredQuantity(t, d) == IF d = 1 THEN t.stock ELSE t.shelf[d]

\* def get_low_stock_drugs(self, threshold: int = 10)
DefaultThreshold == 10

Omitted == [given |-> FALSE, val |-> 0]

Given(v) == [given |-> TRUE, val |-> v]

ThresholdOf(arg) == IF arg.given THEN arg.val ELSE DefaultThreshold

ThresholdArgs == {Omitted} \cup {Given(v) : v \in {0, 1, 9, 10, 11, 12}}

\* The orders the server may give the drugs of a set in under
\* ORDER BY stored_quantity ASC (drugs of equal quantity come in any order).
QuantityOrderings(ids, t) ==
    {q \in SeqsUpTo(DrugIds, Cardinality(DrugIds)) :
        /\ Len(q) = Cardinality(ids)
        /\ {q[i] : i \in 1..Len(q)} = ids
        /\ \A i \in 1..(Len(q) - 1) :
              StoredQuantity(t, q[i]) <= StoredQuantity(t, q[i + 1])}

DrugRows(q, t) ==
    [i \in 1..Len(q) |-> [drug_id |-> q[i], stored_quantity |-> StoredQuantity(t, q[i])]]

\* SELECT ... FROM drug WHERE stored_quantity < %s ORDER BY stored_quantity ASC
LowStockQueryAtMost(t, threshold) ==
    {DrugRows(q, t) :
        q \in QuantityOrderings({d \in DrugIds : StoredQuantity(t, d) <= threshold}, t)}

LowStockQuery(t, threshold) ==
    {DrugRows(q, t) :
        q \in QuantityOrderings({d \in DrugIds : StoredQuantity(t, d) < threshold}, t)}

\* src/hospital_service.py, get_low_stock_drugs; rows is the answer the
\* server gives, one of LowStockQuery.
GetLowStockDrugs(s, rows, queryErr) ==
    ExecuteQuery(s, [err |-> queryErr, rows |-> rows])

GetLowStockDrugsCall ==
    /\ conn = "open"
    /\ last.op = "none"
    /\ \E arg \in ThresholdArgs, queryErr \in QueryErrors :
         \E rows \in LowStockQuery(txn, ThresholdOf(arg)) :
            LET r == GetLowStockDrugs(Session, rows, queryErr)
            IN  last' = [Idle EXCEPT !.op = "get_low_stock_drugs",
                            !.file = "hospital_service",
                            !.outcome = r.outcome, !.exc = r.exc, !.rows = r.rows,
                            !.stmtErr = queryErr,
                            !.svc = [wrapper |-> "any", arg |-> arg,
                                     threshold |-> ThresholdOf(arg)]]
    /\ UNCHANGED <<db, txn, now, conn, withState, propagated, session>>

\* db.execute_non_query("UPDATE drug SET stored_quantity = %s WHERE drug_id = %s", ...)
\* on one of the other drugs.
SetShelfCall ==
    /\ conn = "open"
    /\ last.op = "none"
    /\ \E d \in OtherDrugIds, n \in ShelfLevels :
         LET affected == IF txn.shelf[d] = n THEN 0 ELSE 1
             r == ExecuteNonQuery(Session,
                     [err |-> NoExc, affected |-> affected,
                      txnAfter |-> [txn EXCEPT !.shelf[d] = n]])
         IN  /\ db' = r.s.db
             /\ txn' = r.s.txn
             /\ last' = [Idle EXCEPT !.op = "execute_non_query", !.file = "db_util",
                            !.outcome = r.outcome, !.exc = r.exc,
                            !.commits = r.s.commits, !.rollbacks = r.s.rollbacks,
                            !.affected = r.affected, !.stmtAffected = affected]
    /\ UNCHANGED <<now, conn, withState, propagated, session>>

NextPharmacy ==
    \/ Return
    \/ SetStockCall
    \/ SetShelfCall
    \/ GetLowStockDrugsCall

SpecPharmacy == Init /\ [][NextPharmacy]_vars

\* ============================ src/system/hospital_service.py: data management
\* The rows of the tables that reference a record.  Every prescription is of
\* drug 1 and has its 'Medicine' payment.
Registrations(t) == {r \in RegIds : t.registration[r] # NoReg}

PatientRegistrations(t, id) == {r \in Registrations(t) : t.regPatient[r] = id}

DoctorRegistrations(t, id) == {r \in Registrations(t) : t.regDoctor[r] = id}

DepartmentRegistrations(t, id) == {r \in Registrations(t) : t.regDept[r] = id}

DepartmentDoctors(t, id) == {d \in DoctorRows : t.doctor[d] = id}

DrugPrescriptions(t, id) ==
    IF id = 1
    THEN {p \in PayIds : t.payment[p].present /\ t.payment[p].ptype = "Medicine"}
    ELSE {}

\* pymysql raises the server's errors 1451 and 1452 (and other constraint
\* errors) as pymysql.err.IntegrityError.
IsIntegrityError(e) == e.type = "pymysql.Error" /\ e.code \in {1048, 1062, 1451, 1452}

RowIsReferenced == PyMysqlError(1451, 2, <<"a">>)

\* DELETE FROM <table> WHERE <key> = %s, as the statement execute_non_query
\* is given: exists, whether the row is there; restricted, whether a foreign
\* key of the schema still points at it; removed, the tables without it.
\* delErr is what else the server may answer with.
DeleteStatement(t, exists, restricted, removed, delErr) ==
    IF restricted /\ exists
    THEN [err |-> RowIsReferenced, affected |-> 0, txnAfter |-> t]
    ELSE IF delErr # NoExc
    THEN [err |-> delErr, affected |-> 0, txnAfter |-> t]
    ELSE IF exists
    THEN [err |-> NoExc, affected |-> 1, txnAfter |-> removed]
    ELSE [err |-> NoExc, affected |-> 0, txnAfter |-> t]

DeleteEnded(outcome, exc, s, success, message, executed) ==
    [outcome |-> outcome, exc |-> exc, s |-> s, executed |-> executed,
     result |-> [IdleResult EXCEPT !.success = success, !.message = message]]

\* The body the four delete methods share: count is the COUNT(*) of the
\* check query, checkErr the error the server answers that query with, del
\* the DELETE statement, context the text of the re-raised error.
DeleteUnchecked(s, count, checkErr, del, context) ==
    LET checked == ExecuteQuery(s, [err |-> checkErr, rows |-> <<[count |-> count]>>])
        deleted == ExecuteNonQuery(s, del)
        failed(e, s1, executed) ==
            IF e.type = "DatabaseError"
            THEN DeleteEnded("raised", e, s1, FALSE, <<>>, executed)
            ELSE IF IsIntegrityError(e)
            THEN IF e.code = 1451
                 THEN DeleteEnded("returned", NoExc, s1, FALSE, <<"still referenced">>,
                                  executed)
                 ELSE DeleteEnded("raised", e, s1, FALSE, <<>>, executed)
            ELSE DeleteEnded("raised",
                             [type |-> "pymysql.Error", code |-> 0, nargs |-> 1,
                              msg |-> <<context>> \o StrOf(e)],
                             s1, FALSE, <<>>, executed)
    IN  IF checked.outcome = "raised" THEN failed(checked.exc, checked.s, FALSE)
        ELSE IF deleted.outcome = "raised" THEN failed(deleted.exc, deleted.s, TRUE)
        ELSE IF deleted.affected = 0
        THEN DeleteEnded("returned", NoExc, deleted.s, FALSE, <<"does not exist">>, TRUE)
        ELSE DeleteEnded("returned", NoExc, deleted.s, TRUE, <<"deleted">>, TRUE)

DeleteChecked(s, count, checkErr, del, context) ==
    LET checked == ExecuteQuery(s, [err |-> checkErr, rows |-> <<[count |-> count]>>])
        deleted == ExecuteNonQuery(s, del)
        failed(e, s1, executed) ==
            IF e.type = "DatabaseError"
            THEN DeleteEnded("raised", e, s1, FALSE, <<>>, executed)
            ELSE IF IsIntegrityError(e)
            THEN IF e.code = 1451
                 THEN DeleteEnded("returned", NoExc, s1, FALSE, <<"still referenced">>,
                                  executed)
                 ELSE DeleteEnded("raised", e, s1, FALSE, <<>>, executed)
            ELSE DeleteEnded("raised",
                             [type |-> "pymysql.Error", code |-> 0, nargs |-> 1,
                              msg |-> <<context>> \o StrOf(e)],
                             s1, FALSE, <<>>, executed)
    IN  IF checked.outcome = "raised" THEN failed(checked.exc, checked.s, FALSE)
        ELSE IF checked.rows[1].count > 0
        THEN DeleteEnded("returned", NoExc, checked.s, FALSE, <<"has references">>, FALSE)
        ELSE IF deleted.outcome = "raised" THEN failed(deleted.exc, deleted.s, TRUE)
        ELSE IF deleted.affected = 0
        THEN DeleteEnded("returned", NoExc, deleted.s, FALSE, <<"does not exist">>, TRUE)
        ELSE DeleteEnded("returned", NoExc, deleted.s, TRUE, <<"deleted">>, TRUE)

\* delete_patient: SELECT COUNT(*) FROM registration WHERE patient_id = %s
DeletePatient(s, patient_id, checkErr, delErr) ==
    DeleteChecked(s, Cardinality(PatientRegistrations(s.txn, patient_id)), checkErr,
        DeleteStatement(s.txn, patient_id \in s.txn.patient,
                        PatientRegistrations(s.txn, patient_id) # {},
                        [s.txn EXCEPT !.patient = @ \ {patient_id}], delErr),
        "delete patient failed: ")

\* delete_doctor: SELECT COUNT(*) FROM registration WHERE doctor_id = %s
DeleteDoctor(s, doctor_id, checkErr, delErr) ==
    DeleteChecked(s, Cardinality(DoctorRegistrations(s.txn, doctor_id)), checkErr,
        DeleteStatement(s.txn, DoctorExists(s.txn, doctor_id),
                        DoctorRegistrations(s.txn, doctor_id) # {},
                        IF doctor_id \in DoctorRows
                        THEN [s.txn EXCEPT !.doctor[doctor_id] = NoDoctor] ELSE s.txn,
                        delErr),
        "delete doctor failed: ")

\* delete_department: SELECT COUNT(*) FROM doctor WHERE department_id = %s;
\* the registrations reference the department too.
DeleteDepartment(s, department_id, checkErr, delErr) ==
    DeleteChecked(s, Cardinality(DepartmentDoctors(s.txn, department_id)), checkErr,
        DeleteStatement(s.txn, department_id \in s.txn.department,
                        \/ DepartmentDoctors(s.txn, department_id) # {}
                        \/ DepartmentRegistrations(s.txn, department_id) # {},
                        [s.txn EXCEPT !.department = @ \ {department_id}], delErr),
        "delete department failed: ")

\* delete_drug: SELECT COUNT(*) FROM prescription WHERE drug_id = %s
DeleteDrug(s, drug_id, checkErr, delErr) ==
    DeleteChecked(s, Cardinality(DrugPrescriptions(s.txn, drug_id)), checkErr,
        DeleteStatement(s.txn, drug_id \in s.txn.drug,
                        DrugPrescriptions(s.txn, drug_id) # {},
                        [s.txn EXCEPT !.drug = @ \ {drug_id}], delErr),
        "delete drug failed: ")

\* INSERT INTO doctor (..., department_id, ...) VALUES (...): the row takes
\* the next AUTO_INCREMENT key; the foreign key refuses a department that
\* does not exist.
InsertDoctor(t, department_id, insErr) ==
    IF department_id \notin t.department
    THEN [err |-> NoReferencedRow, affected |-> 0, txnAfter |-> t]
    ELSE IF insErr # NoExc
    THEN [err |-> insErr, affected |-> 0, txnAfter |-> t]
    ELSE [err |-> NoExc, affected |-> 1,
          txnAfter |-> [t EXCEPT !.doctor[t.doctorSeq + 1] = department_id,
                                 !.doctorSeq = @ + 1]]

DepartmentMissing(department_id) ==
    DatabaseError(<<"department ", ToString(department_id), " does not exist">>)

AddDoctorEnded(outcome, exc, s, id, inserts) ==
    [outcome |-> outcome, exc |-> exc, s |-> s, id |-> id, inserts |-> inserts]

\* src/system/hospital_service.py, add_doctor
AddDoctorUnchecked(s, department_id, checkErr, insErr) ==
    LET inserted == ExecuteNonQuery(s, InsertDoctor(s.txn, department_id, insErr))
    IN  IF inserted.outcome = "raised"
        THEN AddDoctorEnded("raised",
                 IF inserted.exc.type = "DatabaseError" THEN inserted.exc
                 ELSE [type |-> "pymysql.Error", code |-> 0, nargs |-> 1,
                       msg |-> <<"add doctor failed: ">> \o StrOf(inserted.exc)],
                 inserted.s, None, 1)
        ELSE AddDoctorEnded("returned", NoExc, inserted.s, inserted.s.txn.doctorSeq, 1)

AddDoctor(s, department_id, checkErr, insErr) ==
    LET dept_check ==
            ExecuteQuery(s, [err |-> checkErr,
                             rows |-> IF department_id \in s.txn.department
                                      THEN <<[department_id |-> department_id]>>
                                      ELSE <<>>])
        inserted == ExecuteNonQuery(s, InsertDoctor(s.txn, department_id, insErr))
    IN  IF dept_check.outcome = "raised"
        THEN AddDoctorEnded("raised", dept_check.exc, dept_check.s, None, 0)
        ELSE IF dept_check.rows = <<>>
        THEN AddDoctorEnded("raised", DepartmentMissing(department_id), dept_check.s,
                            None, 0)
        ELSE IF inserted.outcome = "raised"
        THEN AddDoctorEnded("raised",
                 IF inserted.exc.type = "DatabaseError" THEN inserted.exc
                 ELSE [type |-> "pymysql.Error", code |-> 0, nargs |-> 1,
                       msg |-> <<"add doctor failed: ">> \o StrOf(inserted.exc)],
                 inserted.s, None, 1)
        ELSE AddDoctorEnded("returned", NoExc, inserted.s, inserted.s.txn.doctorSeq, 1)

\* ------------------------------------------ actions: the data management
\* What else the server may answer a DELETE or an INSERT with.
WriteErrors == {NoExc, PyMysqlError(1205, 2, <<"a">>)}

MissingId == 9

DeleteLast(op, id, checkErr, r) ==
    [Idle EXCEPT !.op = op, !.file = "system/hospital_service",
        !.outcome = r.outcome, !.exc = r.exc,
        !.commits = r.s.commits, !.rollbacks = r.s.rollbacks,
        !.stmtErr = checkErr, !.result = r.result,
        !.svc = [wrapper |-> "any", id |-> id, executed |-> r.executed]]

DeletePatientCall ==
    /\ conn = "open"
    /\ last.op = "none"
    /\ \E id \in Patients \cup {MissingId}, checkErr \in QueryErrors, delErr \in WriteErrors :
         LET r == DeletePatient(Session, id, checkErr, delErr)
         IN  /\ db' = r.s.db
             /\ txn' = r.s.txn
             /\ last' = DeleteLast("delete_patient", id, checkErr, r)
    /\ UNCHANGED <<now, conn, withState, propagated, session>>

DeleteDoctorCall ==
    /\ conn = "open"
    /\ last.op = "none"
    /\ \E id \in DoctorRows \cup {MissingId}, checkErr \in QueryErrors, delErr \in WriteErrors :
         LET r == DeleteDoctor(Session, id, checkErr, delErr)
         IN  /\ db' = r.s.db
             /\ txn' = r.s.txn
             /\ last' = DeleteLast("delete_doctor", id, checkErr, r)
    /\ UNCHANGED <<now, conn, withState, propagated, session>>

DeleteDepartmentCall ==
    /\ conn = "open"
    /\ last.op = "none"
    /\ \E id \in Departments \cup {MissingId}, checkErr \in QueryErrors, delErr \in WriteErrors :
         LET r == DeleteDepartment(Session, id, checkErr, delErr)
         IN  /\ db' = r.s.db
             /\ txn' = r.s.txn
             /\ last' = DeleteLast("delete_department", id, checkErr, r)
    /\ UNCHANGED <<now, conn, withState, propagated, session>>

DeleteDrugCall ==
    /\ conn = "open"
    /\ last.op = "none"
    /\ \E id \in {1, 2, MissingId}, checkErr \in QueryErrors, delErr \in WriteErrors :
         LET r == DeleteDrug(Session, id, checkErr, delErr)
         IN  /\ db' = r.s.db
             /\ txn' = r.s.txn
             /\ last' = DeleteLast("delete_drug", id, checkErr, r)
    /\ UNCHANGED <<now, conn, withState, propagated, session>>

AddDoctorCall ==
    /\ conn = "open"
    /\ last.op = "none"
    /\ txn.doctorSeq < MaxDoctors
    /\ \E dept \in Departments \cup {MissingId}, checkErr \in QueryErrors,
          insErr \in WriteErrors :
         LET r == AddDoctor(Session, dept, checkErr, insErr)
         IN  /\ db' = r.s.db
             /\ txn' = r.s.txn
             /\ last' = [Idle EXCEPT !.op = "add_doctor",
                            !.file = "system/hospital_service",
                            !.outcome = r.outcome, !.exc = r.exc,
                            !.commits = r.s.commits, !.rollbacks = r.s.rollbacks,
                            !.stmtErr = checkErr,
                            !.svc = [wrapper |-> "any", department_id |-> dept,
                                     id |-> r.id, inserts |-> r.inserts]]
    /\ UNCHANGED <<now, conn, withState, propagated, session>>

\* The desk registers for any department.
RegisterPatientAnywhere == RegisterPatientIn(Departments)

\* A prescription of drug 1, while the drug table has it.
PrescribeCall == 1 \in txn.drug /\ CreatePrescriptionCall

NextAdmin ==
    \/ Return
    \/ RegisterPatientAnywhere
    \/ PrescribeCall
    \/ DeletePatientCall
    \/ DeleteDoctorCall
    \/ DeleteDepartmentCall
    \/ DeleteDrugCall
    \/ AddDoctorCall

SpecAdmin == Init /\ [][NextAdmin]_vars

\* ======================================= src/backend/app.py, src/system/app.py
Apps == {"backend", "system"}

\* A form field that was not sent; a session key that is not set.
Absent == "<absent>"

FormRoles == {"registrar", "doctor", "admin", "patient", "nurse", Absent}

FormUserIds == {"", "1", "2", "x", Absent}

\* int(s) on the strings the forms are exercised with: the number, or None
\* for the ValueError of a string that is no number.
IntOf(str) ==
    IF str = "1" THEN 1 ELSE IF str = "2" THEN 2 ELSE None

\* bool(v) of a session value: None and '' are falsy.
Falsy(v) == v = Absent \/ v = ""

Redirect(target, flashed) == [kind |-> "redirect", target |-> target, flashed |-> flashed]

Render(template, flashed) == [kind |-> "render", target |-> template, flashed |-> flashed]

\* An exception the route does not catch: Flask answers with the handler of
\* error 500, internal_error(), a flash and a redirect to home.
ServerError == [kind |-> "redirect", target |-> "home", flashed |-> "An internal error occurred"]

\* POST / : home().  form.get('role') is None and form.get('user_id', '') is
\* '' when the field was not sent.
HomeOneAdminPage(app, form) ==
    LET role == form.role
        user_id == IF form.user_id = Absent THEN "" ELSE form.user_id
        stored == [role |-> role, user_id |-> user_id]
    IN  IF role = "registrar" THEN [session |-> stored, response |-> Redirect("register", "none")]
        ELSE IF role = "doctor"
        THEN [session |-> stored, response |-> Redirect("doctor_queue", "none")]
        ELSE IF role = "admin"
        THEN [session |-> stored, response |-> Redirect("admin_inventory", "none")]
        ELSE IF role = "patient"
        THEN [session |-> stored, response |-> Redirect("patient_login", "none")]
        ELSE [session |-> stored, response |-> Redirect("home", "invalid role")]

Home(app, form) ==
    LET role == form.role
        user_id == IF form.user_id = Absent THEN "" ELSE form.user_id
        stored == [role |-> role, user_id |-> user_id]
    IN  IF role = "registrar" THEN [session |-> stored, response |-> Redirect("register", "none")]
        ELSE IF role = "doctor"
        THEN [session |-> stored, response |-> Redirect("doctor_queue", "none")]
        ELSE IF role = "admin"
        THEN [session |-> stored,
              response |-> Redirect(IF app = "backend" THEN "admin_inventory"
                                    ELSE "admin_data_management", "none")]
        ELSE IF role = "patient" /\ app = "system"
        THEN [session |-> stored, response |-> Redirect("patient_login", "none")]
        ELSE [session |-> stored, response |-> Redirect("home", "invalid role")]

\* GET /doctor/queue : doctor_queue(), the same in both applications.  rows
\* is the server's answer to the query of get_waiting_list for the doctor.
DoctorQueue(s, sess, rowsOf, queryErr) ==
    LET doctor_id == sess.user_id
    IN  IF Falsy(doctor_id)
        THEN [response |-> Redirect("home", "log in as a doctor"), called |-> FALSE,
              arg |-> None, patients |-> <<>>]
        ELSE IF IntOf(doctor_id) = None
        THEN [response |-> ServerError, called |-> FALSE, arg |-> None, patients |-> <<>>]
        ELSE LET r == GetWaitingList(s, rowsOf[IntOf(doctor_id)], queryErr)
             IN  IF r.outcome = "returned"
                 THEN [response |-> Render("doctor_queue.html", "none"), called |-> TRUE,
                       arg |-> IntOf(doctor_id), patients |-> r.rows]
                 ELSE IF r.exc.type = "pymysql.Error"
                 THEN [response |-> Render("doctor_queue.html", "error loading queue"),
                       called |-> TRUE, arg |-> IntOf(doctor_id), patients |-> <<>>]
                 ELSE [response |-> ServerError, called |-> TRUE,
                       arg |-> IntOf(doctor_id), patients |-> <<>>]

HomePost ==
    /\ last.op = "none"
    /\ \E app \in Apps, role \in FormRoles, user_id \in FormUserIds :
         LET r == Home(app, [role |-> role, user_id |-> user_id])
         IN  /\ session' = [session EXCEPT !.role = r.session.role,
                                            !.user_id = r.session.user_id]
             /\ last' = [Idle EXCEPT !.op = "home", !.file = app \o "/app",
                            !.svc = [wrapper |-> "any", role |-> role,
                                     user_id |-> user_id, response |-> r.response]]
    /\ UNCHANGED <<db, txn, now, conn, withState, propagated>>

DoctorQueueGet ==
    /\ conn = "open"
    /\ last.op = "none"
    /\ \E app \in Apps, queryErr \in QueryErrors :
       \E rowsOf \in [Doctors -> UNION {WaitingListQuery(txn, d) : d \in Doctors}] :
         /\ \A d \in Doctors : rowsOf[d] \in WaitingListQuery(txn, d)
         /\ LET r == DoctorQueue(Session, session, rowsOf, queryErr)
            IN  last' = [Idle EXCEPT !.op = "doctor_queue", !.file = app \o "/app",
                            !.stmtErr = queryErr,
                            !.svc = [wrapper |-> "any", called |-> r.called,
                                     arg |-> r.arg, patients |-> r.patients,
                                     response |-> r.response]]
    /\ UNCHANGED <<db, txn, now, conn, withState, propagated, session>>

NextWeb ==
    \/ Return
    \/ HomePost
    \/ DoctorQueueGet
    \/ RegisterPatientCall
    \/ PayBillCall

SpecWeb == Init /\ [][NextWeb]_vars

\* ------------------------------------------------ the routes that take forms
MaxRows == 3

\* int(v) of a form value: a number; the ValueError of a string that is no
\* number; the TypeError of None, the value of a field that was not sent.
IntParse(v) ==
    IF v = Absent THEN [ok |-> FALSE, error |-> "TypeError", val |-> None]
    ELSE IF IntOf(v) = None THEN [ok |-> FALSE, error |-> "ValueError", val |-> None]
    ELSE [ok |-> TRUE, error |-> "none", val |-> IntOf(v)]

\* The first of a sequence of parses that failed, in the order the route
\* evaluates them.
FirstError(parses) ==
    IF \A i \in 1..Len(parses) : parses[i].ok THEN "none"
    ELSE parses[CHOOSE i \in 1..Len(parses) :
                    ~parses[i].ok /\ \A j \in 1..(i - 1) : parses[j].ok].error

\* A row of the dynamic prescription form: sent is whether the form has the
\* key drug_id_<i>; quantity is Absent when quantity_<i> is not among the keys.
NoRowSent == [sent |-> FALSE, drug_id |-> Absent, quantity |-> Absent]

FormRows ==
    {NoRowSent} \cup {[sent |-> TRUE, drug_id |-> d, quantity |-> q] :
                         d \in {"", "1"}, q \in {"", "1", "x", Absent}}

\* The forms: row i of the form at position i.
DiagnoseForms == [1..MaxRows -> FormRows]

\* The while loop of diagnose from row i on: it ends at the first index the
\* form has no drug_id key for; a row with both values is converted and
\* appended, any other is passed over.
RECURSIVE ParseRows(_, _, _)
ParseRows(form, i, acc) ==
    IF i > MaxRows \/ ~form[i].sent THEN [error |-> "none", drug_list |-> acc]
    ELSE IF ~Falsy(form[i].drug_id) /\ ~Falsy(form[i].quantity)
    THEN LET error == FirstError(<<IntParse(form[i].drug_id), IntParse(form[i].quantity)>>)
         IN  IF error # "none" THEN [error |-> error, drug_list |-> <<>>]
             ELSE ParseRows(form, i + 1,
                      Append(acc, [drug_id |-> IntOf(form[i].drug_id),
                                   quantity |-> IntOf(form[i].quantity)]))
    ELSE ParseRows(form, i + 1, acc)

RouteEnded(response, called, s) == [response |-> response, called |-> called, s |-> s]

\* What a route answers an exception of the service with: the two handlers
\* of the service's errors redirect to page; any other exception is Flask's.
ServiceFailed(e, page, s) ==
    IF e.type = "DatabaseError" THEN RouteEnded(Redirect(page, "database error"), TRUE, s)
    ELSE RouteEnded(Redirect(page, "Database error: "), TRUE, s)

\* POST /doctor/diagnose/<reg_id> : diagnose(), the same in both applications.
Diagnose(wrapper, s, reg_id, form) ==
    LET parsed == ParseRows(form, 1, <<>>)
        r == SubmitDiagnosis(wrapper, s, reg_id, parsed.drug_list)
    IN  IF parsed.error = "ValueError"
        THEN RouteEnded(Redirect("diagnose", "invalid prescription"), FALSE, s)
        ELSE IF parsed.error # "none" THEN RouteEnded(ServerError, FALSE, s)
        ELSE IF parsed.drug_list = <<>>
        THEN RouteEnded(Redirect("diagnose", "No prescriptions provided"), FALSE, s)
        ELSE IF r.outcome = "returned"
        THEN RouteEnded(Redirect("doctor_queue", "submitted"), TRUE, r.s)
        ELSE ServiceFailed(r.exc, "diagnose", r.s)

\* POST /register : register()
Register(wrapper, s, form, clock, queryErr) ==
    LET patient_id == IntParse(form.patient_id)
        dept_id == IntParse(form.department_id)
        doc_id == IntParse(form.doctor_id)
        error == FirstError(<<patient_id, dept_id, doc_id>>)
        r == RegisterPatient(wrapper, s, patient_id.val, dept_id.val, doc_id.val,
                             clock, queryErr)
    IN  IF error = "ValueError"
        THEN RouteEnded(Redirect("register", "Invalid input values"), FALSE, s)
        ELSE IF error # "none" THEN RouteEnded(ServerError, FALSE, s)
        ELSE IF r.outcome = "returned"
        THEN RouteEnded(Redirect("billing", "Registration successful"), TRUE, r.s)
        ELSE ServiceFailed(r.exc, "register", r.s)

\* POST /billing : billing()
Billing(s, form, clock, sig) ==
    LET payment_id == IntParse(form.payment_id)
        r == PayBill(s, payment_id.val, clock, sig)
    IN  IF payment_id.error = "ValueError"
        THEN RouteEnded(Redirect("billing", "Invalid payment ID"), FALSE, s)
        ELSE IF payment_id.error # "none" THEN RouteEnded(ServerError, FALSE, s)
        ELSE IF r.outcome = "returned"
        THEN RouteEnded(Redirect("billing", r.result.message), TRUE, r.s)
        ELSE ServiceFailed(r.exc, "billing", r.s)

\* The values the numeric fields of the forms are sent with.
NumberFields == {"1", "x", "", Absent}

RouteLast(op, form, r) ==
    [Idle EXCEPT !.op = op, !.file = "backend/app",
        !.commits = r.s.commits, !.rollbacks = r.s.rollbacks,
        !.svc = [wrapper |-> "any", form |-> form, called |-> r.called,
                 response |-> r.response]]

RegisterPost ==
    /\ conn = "open"
    /\ last.op = "none"
    /\ \E r \in RegIds : txn.registration[r] = NoReg
    /\ \E p \in PayIds : ~txn.payment[p].present
    /\ \E wrapper \in Wrappers, queryErr \in QueryErrors,
          form \in [patient_id : NumberFields, department_id : NumberFields,
                    doctor_id : NumberFields] :
         LET r == Register(wrapper, Session, form, now, queryErr)
         IN  /\ db' = r.s.db
             /\ txn' = r.s.txn
             /\ last' = RouteLast("register", form, r)
    /\ UNCHANGED <<now, conn, withState, propagated, session>>

BillingPost ==
    /\ conn = "open"
    /\ last.op = "none"
    /\ \E form \in [payment_id : NumberFields \cup {"2"}] :
       \E sig \in (IF IntParse(form.payment_id).ok
                   THEN Signals(txn, IntOf(form.payment_id)) ELSE {NoExc}) :
         LET r == Billing(Session, form, now, sig)
         IN  /\ db' = r.s.db
             /\ txn' = r.s.txn
             /\ last' = RouteLast("billing", form, r)
    /\ UNCHANGED <<now, conn, withState, propagated, session>>

DiagnosePost ==
    /\ conn = "open"
    /\ last.op = "none"
    /\ \E wrapper \in Wrappers, reg \in RegIds, form \in DiagnoseForms :
         /\ Len(ParseRows(form, 1, <<>>).drug_list) <= Cardinality(FreePayIds(txn))
         /\ LET r == Diagnose(wrapper, Session, reg, form)
            IN  /\ db' = r.s.db
                /\ txn' = r.s.txn
                /\ last' = [RouteLast("diagnose", form, r) EXCEPT
                               !.svc = [wrapper |-> "any", form |-> form,
                                        called |-> r.called, response |-> r.response,
                                        drug_list |-> ParseRows(form, 1, <<>>).drug_list,
                                        error |-> ParseRows(form, 1, <<>>).error]]
    /\ UNCHANGED <<now, conn, withState, propagated, session>>

NextForms ==
    \/ Return
    \/ RegisterPost
    \/ BillingPost
    \/ DiagnosePost

SpecForms == Init /\ [][NextForms]_vars

\* ------------------------------------------- src/system/app.py: the patients
\* patient.id_card of the patients.
IdCardOf(p) == IF p = 1 THEN "card1" ELSE "card2"

\* The id_card fields the login form is sent with.
IdCardFields == {Absent, "", " ", "card1", " card2 ", "nobody"}

\* str.strip() on those values.
Strip(str) ==
    IF str = " " THEN "" ELSE IF str = " card2 " THEN "card2" ELSE str

\* session.get('patient_id') is falsy when the key is not set.
NoPatient == None

\* SELECT ... FROM patient WHERE id_card = %s
PatientByIdCard(t, id_card) ==
    LET ids == {p \in t.patient : IdCardOf(p) = id_card}
    IN  [i \in 1..Cardinality(ids) |-> [patient_id |-> Ascending(ids)[i]]]

\* src/system/hospital_service.py, authenticate_patient: result[0] if result
\* else None.
AuthenticatePatient(s, id_card, queryErr) ==
    LET result == ExecuteQuery(s, [err |-> queryErr,
                                   rows |-> PatientByIdCard(s.txn, id_card)])
    IN  IF result.outcome = "raised"
        THEN [outcome |-> "raised", exc |-> result.exc, found |-> FALSE, patient_id |-> None]
        ELSE IF result.rows # <<>>
        THEN [outcome |-> "returned", exc |-> NoExc, found |-> TRUE,
              patient_id |-> result.rows[1].patient_id]
        ELSE [outcome |-> "returned", exc |-> NoExc, found |-> FALSE, patient_id |-> None]

\* POST /patient/login : patient_login()
PatientLogin(s, sess, form, queryErr) ==
    LET id_card == Strip(IF form.id_card = Absent THEN "" ELSE form.id_card)
        patient == AuthenticatePatient(s, id_card, queryErr)
    IN  IF id_card = ""
        THEN [session |-> sess, called |-> FALSE,
              response |-> Redirect("patient_login", "enter your id card")]
        ELSE IF patient.outcome = "raised"
        THEN [session |-> sess, called |-> TRUE,
              response |-> IF patient.exc.type = "pymysql.Error"
                           THEN Redirect("patient_login", "error") ELSE ServerError]
        ELSE IF patient.found
        THEN [session |-> [sess EXCEPT !.role = "patient",
                                       !.patient_id = patient.patient_id],
              called |-> TRUE, response |-> Redirect("patient_portal", "welcome")]
        ELSE [session |-> sess, called |-> TRUE,
              response |-> Redirect("patient_login", "invalid id card")]

\* GET /logout : logout(), session.clear()
ClearedSession == [role |-> Absent, user_id |-> Absent, patient_id |-> NoPatient]

Logout(sess) == [session |-> ClearedSession, response |-> Redirect("home", "logged out")]

\* The ids of a set, the newest first.
Descending(S) ==
    LET up == Ascending(S)
    IN  [i \in 1..Len(up) |-> up[Len(up) + 1 - i]]

\* The three queries of the portal, WHERE r.patient_id = %s: the ids of the
\* patient's registrations, of the prescriptions and of the payments of
\* those registrations, the newest first.
PatientRecords(t, method, patient_id) ==
    LET payments(types) ==
            {p \in PayIds : /\ t.payment[p].present
                            /\ t.payment[p].ptype \in types
                            /\ t.payment[p].reg \in PatientRegistrations(t, patient_id)}
    IN  IF method = "get_patient_registrations"
        THEN Descending(PatientRegistrations(t, patient_id))
        ELSE IF method = "get_patient_prescriptions"
        THEN Descending(payments({"Medicine"}))
        ELSE Descending(payments({"Medicine", "Registration"}))

PortalMethods ==
    <<"get_patient_registrations", "get_patient_prescriptions", "get_patient_payments">>

\* The calls of the portal from the k-th on: each is an execute_query, and
\* the first that raises ends them.
RECURSIVE PortalQueries(_, _, _, _, _)
PortalQueries(s, patient_id, errs, k, acc) ==
    IF k > Len(PortalMethods)
    THEN [outcome |-> "returned", exc |-> NoExc, queried |-> acc.queried, rows |-> acc.rows]
    ELSE LET r == ExecuteQuery(s, [err |-> errs[k],
                                   rows |-> PatientRecords(s.txn, PortalMethods[k],
                                                           patient_id)])
             queried == Append(acc.queried,
                               [method |-> PortalMethods[k], patient_id |-> patient_id])
         IN  IF r.outcome = "raised"
             THEN [outcome |-> "raised", exc |-> r.exc, queried |-> queried, rows |-> <<>>]
             ELSE PortalQueries(s, patient_id, errs, k + 1,
                                [queried |-> queried, rows |-> Append(acc.rows, r.rows)])

\* GET /patient/portal : patient_portal()
PatientPortalWithoutLogin(s, sess, errs) ==
    LET patient_id == sess.patient_id
        r == PortalQueries(s, patient_id, errs, 1, [queried |-> <<>>, rows |-> <<>>])
    IN  IF r.outcome = "returned"
        THEN [response |-> Render("patient_portal.html", "none"),
              queried |-> r.queried, rows |-> r.rows]
        ELSE IF r.exc.type = "pymysql.Error"
        THEN [response |-> Render("patient_portal.html", "error loading records"),
              queried |-> r.queried, rows |-> <<<<>>, <<>>, <<>>>>]
        ELSE [response |-> ServerError, queried |-> r.queried, rows |-> <<>>]

PatientPortal(s, sess, errs) ==
    LET patient_id == sess.patient_id
        r == PortalQueries(s, patient_id, errs, 1, [queried |-> <<>>, rows |-> <<>>])
    IN  IF patient_id = NoPatient \/ patient_id = 0
        THEN [response |-> Redirect("patient_login", "log in first"),
              queried |-> <<>>, rows |-> <<>>]
        ELSE IF r.outcome = "returned"
        THEN [response |-> Render("patient_portal.html", "none"),
              queried |-> r.queried, rows |-> r.rows]
        ELSE IF r.exc.type = "pymysql.Error"
        THEN [response |-> Render("patient_portal.html", "error loading records"),
              queried |-> r.queried, rows |-> <<<<>>, <<>>, <<>>>>]
        ELSE [response |-> ServerError, queried |-> r.queried, rows |-> <<>>]

PatientLoginPost ==
    /\ conn = "open"
    /\ last.op = "none"
    /\ \E id_card \in IdCardFields, queryErr \in QueryErrors :
         LET r == PatientLogin(Session, session, [id_card |-> id_card], queryErr)
         IN  /\ session' = r.session
             /\ last' = [Idle EXCEPT !.op = "patient_login", !.file = "system/app",
                            !.stmtErr = queryErr,
                            !.svc = [wrapper |-> "any", id_card |-> id_card,
                                     called |-> r.called, response |-> r.response]]
    /\ UNCHANGED <<db, txn, now, conn, withState, propagated>>

LogoutGet ==
    /\ last.op = "none"
    /\ LET r == Logout(session)
       IN  /\ session' = r.session
           /\ last' = [Idle EXCEPT !.op = "logout", !.file = "system/app",
                          !.svc = [wrapper |-> "any", response |-> r.response]]
    /\ UNCHANGED <<db, txn, now, conn, withState, propagated>>

PatientPortalGet ==
    /\ conn = "open"
    /\ last.op = "none"
    /\ \E errs \in [1..3 -> QueryErrors] :
         LET r == PatientPortal(Session, session, errs)
         IN  last' = [Idle EXCEPT !.op = "patient_portal", !.file = "system/app",
                         !.svc = [wrapper |-> "any", queried |-> r.queried,
                                  rows |-> r.rows, response |-> r.response]]
    /\ UNCHANGED <<db, txn, now, conn, withState, propagated, session>>

NextPortal ==
    \/ Return
    \/ HomePost
    \/ PatientLoginPost
    \/ PatientPortalGet
    \/ LogoutGet
    \/ RegisterPatientCall
    \/ DeletePatientCall

SpecPortal == Init /\ [][NextPortal]_vars

\* ================================================= claims on the wrapper
\* The database errors of a recorded call_procedure, by the step they
\* occurred at.
CallprocFailed(l) == l.stream[1].kind = "err"

NextsetFailed(l) == Len(l.stream) > 1 /\ l.stream[Len(l.stream)].kind = "err"

\* fetchall runs on the CALL's result sets in src/db_util.py, and in
\* src/backend/db_util.py when params is empty or missing.
FetchallFailed(l) ==
    /\ l.file = "db_util" \/ ~Truthy(l.params)
    /\ l.stream[1].kind = "rs"
    /\ \E i \in 1..Len(l.stream) : l.stream[i].kind = "rs" /\ l.stream[i].fetchErr # NoExc

SelectFailed(l) ==
    /\ l.file = "backend/db_util" /\ Truthy(l.params)
    /\ l.stream[Len(l.stream)].kind = "rs"
    /\ l.selectErr # NoExc

RolledBackAndRaised(l) ==
    /\ l.rollbacks = 1 /\ l.commits = 0 /\ l.outcome = "raised"
    /\ txn = db

\* C1 as stated: a database error at any step of call_procedure (callproc,
\* fetching a result set, advancing to the next result set) rolls the
\* connection back, leaves commit uncalled and ends the call by raising.
C1_AnyErrorRollsBack ==
    (last.op = "call_procedure"
        /\ (CallprocFailed(last) \/ NextsetFailed(last) \/ FetchallFailed(last)))
    => RolledBackAndRaised(last)

\* C1 amended: an error of callproc, of advancing to the next result set (or,
\* in src/backend/db_util.py, of the SELECT that reads the session variables)
\* rolls back, does not commit and raises; an error of fetchall alone is
\* passed over: the call commits and returns.
C1_StatementErrorRollsBack ==
    last.op = "call_procedure" =>
        /\ (CallprocFailed(last) \/ NextsetFailed(last) \/ SelectFailed(last))
              => RolledBackAndRaised(last)
        /\ (FetchallFailed(last) /\ ~NextsetFailed(last))
              => (last.outcome = "returned" /\ last.commits = 1 /\ last.rollbacks = 0)

C1_Witness ==
    /\ last.op = "call_procedure"
    /\ NextsetFailed(last) /\ ~CallprocFailed(last)
    /\ last.rollbacks = 1 /\ last.outcome = "raised"

\* The database error that ended a recorded call of src/db_util.py.
EscapedError(l) ==
    IF l.op = "call_procedure"
    THEN l.stream[Len(l.stream)].err
    ELSE l.stmtErr

C3_BackendProcedureRaisesTyped ==
    (last.file = "backend/db_util" /\ last.op = "call_procedure"
        /\ last.outcome = "raised"
        /\ last.stream[Len(last.stream)].err.code \in 1001..1004
        /\ last.stream[Len(last.stream)].err.nargs >= 2)
    => last.exc.type = "DatabaseError"

\* C4: in src/db_util.py a successful call_procedure whose last parameter is
\* an OUT parameter passed as None returns, as out_params[-1], the value the
\* procedure assigned to it.
C4_OutParamReturned ==
    (last.file = "db_util" /\ last.op = "call_procedure"
        /\ last.outcome = "returned"
        /\ Truthy(last.params)
        /\ last.params.vals[Len(last.params.vals)] = None
        /\ last.hasOut)
    => /\ Len(last.out.vals) = Len(last.params.vals)
       /\ last.out.vals[Len(last.out.vals)] = last.outVal
       /\ last.out.vals[Len(last.out.vals)] # None

\* The non-empty result sets of a stream, in the stream's order.
RECURSIVE NonEmptySets(_)
NonEmptySets(stream) ==
    IF stream = <<>> THEN <<>>
    ELSE IF Head(stream).kind = "rs" /\ Head(stream).rows # <<>>
    THEN <<Head(stream).rows>> \o NonEmptySets(Tail(stream))
    ELSE NonEmptySets(Tail(stream))

\* C5: a successful call_procedure (either file) returns the non-empty result
\* sets the procedure produced, in order, the empty ones left out.
C5_AllResultSetsReturned ==
    (last.op = "call_procedure" /\ last.outcome = "returned" /\ ~FetchallFailed(last))
    => last.sets = NonEmptySets(last.stream)

\* C6: execute_non_query ends with exactly one of commit and rollback.  A
\* statement that succeeds is committed and its row count returned; one that
\* raises is rolled back, not committed, the call raises, and the database
\* and the transaction are as they were before the statement.
C6_NonQueryState ==
    last.op = "execute_non_query" =>
        /\ last.commits + last.rollbacks = 1
        /\ txn = db
        /\ (last.stmtErr = NoExc) =>
              (last.commits = 1 /\ last.outcome = "returned"
                  /\ last.affected = last.stmtAffected)
        /\ (last.stmtErr # NoExc) =>
              (last.rollbacks = 1 /\ last.commits = 0 /\ last.outcome = "raised")

C6_NonQueryStep ==
    (last.op = "none" /\ last'.op = "execute_non_query") =>
        /\ (last'.stmtErr # NoExc) => (db' = db /\ txn' = txn)
        /\ (last'.stmtErr = NoExc) => (db' = WriteMisc(db, last'.stmtAffected))

C6_CommitXorRollback == [](C6_NonQueryState) /\ [][C6_NonQueryStep]_vars

C6_Witness ==
    /\ last.op = "execute_non_query" /\ last.stmtErr # NoExc
    /\ last.rollbacks = 1 /\ db.misc > 0

\* C7: leaving a with-block closes the connection, on a normal exit and when
\* the block raised, and the block's exception is not suppressed.
C7_WithBlockCloses ==
    withState.pos = "left" =>
        /\ conn = "closed"
        /\ propagated = withState.exc

C7_Witness ==
    /\ withState.pos = "left" /\ withState.exc.type = "DatabaseError"
    /\ conn = "closed"

\* ================================================= claims on the service
\* A pay_bill step, from the state before the call to the state after it.
PayBillStep == last.op = "none" /\ last'.op = "pay_bill"

HasRow(t, pid) == pid \in PayIds /\ t.payment[pid].present

\* C8: pay_bill on an existing unpaid payment whose UPDATE meets no database
\* error returns success=True; afterwards the payment's payment_status is 1,
\* in the database as committed.
C8_PayBillStep ==
    (PayBillStep
        /\ HasRow(txn, last'.payment_id)
        /\ txn.payment[last'.payment_id].status = 0
        /\ last'.stmtErr = NoExc)
    => /\ last'.outcome = "returned"
       /\ last'.result.success
       /\ last'.commits = 1 /\ last'.rollbacks = 0
       /\ db'.payment[last'.payment_id].status = 1
       /\ txn' = db'

C8_PayBillMarksPaid == [][C8_PayBillStep]_vars

C8_Witness ==
    /\ last.op = "pay_bill" /\ last.result.success
    /\ db.payment[last.payment_id].status = 1
    /\ db.payment[last.payment_id].ptype = "Medicine"

\* The text between the first two double quotes of a message, Unknown when
\* the message has fewer than two.
QuotePositions(m) == {i \in 1..Len(m) : m[i] = "Q"}

BetweenFirstQuotes(m) ==
    LET qs == QuotePositions(m)
    IN  IF Cardinality(qs) < 2 THEN Unknown
        ELSE LET first == CHOOSE i \in qs : \A j \in qs : i <= j
                 second == CHOOSE i \in qs \ {first} : \A j \in qs \ {first} : i <= j
             IN  [k \in 1..(second - first - 1) |-> m[first + k]]

\* C9: when the UPDATE of a medicine payment fails with the signal
\* 'Insufficient stock for drug ...', pay_bill raises nothing and returns
\* success=False, error_type 'inventory_shortfall' and as drug_name the text
\* between the first pair of double quotes of the message ('Unknown' without
\* one); the payment stays unpaid and the stock is what it was.
C9_PayBillStep ==
    (PayBillStep
        /\ HasRow(db, last'.payment_id)
        /\ db.payment[last'.payment_id].ptype = "Medicine"
        /\ last'.stmtErr \in ShortfallSignals)
    => /\ last'.outcome = "returned"
       /\ ~last'.result.success
       /\ last'.result.error_type = "inventory_shortfall"
       /\ last'.result.hasDrug
       /\ last'.result.drug_name = BetweenFirstQuotes(last'.stmtErr.msg)
       /\ db'.payment[last'.payment_id].status = 0
       /\ db' = db /\ txn' = db
       /\ last'.commits = 0

C10_PayBillStep ==
    (PayBillStep /\ ~HasRow(db, last'.payment_id))
    => /\ last'.outcome = "returned"
       /\ ~last'.result.success
       /\ last'.result.message = NotFoundMessage(last'.payment_id)
       /\ db'.payment = db.payment
       /\ txn'.payment = db.payment

C10_MissingPaymentNotFound == [][C10_PayBillStep]_vars

C10_Witness ==
    /\ last.op = "pay_bill" /\ last.payment_id = MissingPayId
    /\ \E p \in PayIds : db.payment[p].present /\ db.payment[p].status = 0

\* C11: pay_bill on a payment whose payment_status is already 1 returns
\* success=False with the 'not found or already paid' message and leaves the
\* payment row, its payment_date included, as it was.
C11_PayBillStep ==
    (PayBillStep
        /\ HasRow(txn, last'.payment_id)
        /\ txn.payment[last'.payment_id].status = 1
        /\ last'.stmtErr = NoExc)
    => /\ last'.outcome = "returned"
       /\ ~last'.result.success
       /\ last'.result.message = NotFoundMessage(last'.payment_id)
       /\ db'.payment[last'.payment_id] = db.payment[last'.payment_id]

C11_RepeatedPayBillRefused == [][C11_PayBillStep]_vars

\* ============================================ claims on the clinic's workflow
\* C12: a submit_diagnosis(reg_id, drug_list) that completes without error has
\* called sp_finish_consultation exactly once per element of drug_list, in
\* list order, and returns a list of the same length whose i-th element is
\* the payment id the i-th call produced; for an empty drug_list it makes no
\* call and returns an empty list.
C12_DiagnosisReturnsPaymentIds ==
    (last.op = "submit_diagnosis" /\ last.outcome = "returned")
    => LET c == last.svc
       IN  /\ Len(c.calls) = Len(c.drug_list)
           /\ \A i \in 1..Len(c.drug_list) :
                 /\ c.calls[i][1] = c.reg_id
                 /\ c.calls[i][2] = c.drug_list[i].drug_id
                 /\ c.calls[i][3] = c.drug_list[i].quantity
           /\ Len(c.payment_ids) = Len(c.drug_list)
           /\ \A i \in 1..Len(c.drug_list) :
                 /\ c.payment_ids[i] = c.produced[i]
                 /\ HasRow(db, c.payment_ids[i])
                 /\ db.payment[c.payment_ids[i]].reg = c.reg_id

\* C13: a register_patient(patient_id, dept_id, doc_id) that completes without
\* error returns (registration_id, pending_amount): registration_id is a
\* registration row that now exists for that patient, pending_amount the
\* amount of that registration's unpaid 'Registration' payment, 0.0 when it
\* has none.
UnpaidRegistrationPayments(t, r) ==
    {p \in PayIds : /\ t.payment[p].present /\ t.payment[p].reg = r
                    /\ t.payment[p].ptype = "Registration"
                    /\ t.payment[p].status = 0}

C13_RegisterPatientReturnsRegistration ==
    (last.op = "register_patient" /\ last.outcome = "returned")
    => LET c == last.svc
       IN  /\ c.registration_id \in RegIds
           /\ db.registration[c.registration_id] # NoReg
           /\ db.regPatient[c.registration_id] = c.patient_id
           /\ IF UnpaidRegistrationPayments(db, c.registration_id) = {}
              THEN c.pending_amount = 0
              ELSE \E p \in UnpaidRegistrationPayments(db, c.registration_id) :
                      c.pending_amount = db.amount[p]

\* C14: get_pending_payments(patient_id) returns exactly the payments with
\* payment_status 0 that belong to a registration of that patient; a payment
\* created by a successful registration appears in it, and after a
\* successful pay_bill for that payment it no longer appears.
PendingOf(t, patient_id) ==
    {p \in PayIds : /\ t.payment[p].present /\ t.payment[p].status = 0
                    /\ \E r \in RegIds : /\ t.registration[r] # NoReg
                                         /\ t.payment[p].reg = r
                                         /\ t.regPatient[r] = patient_id}

ReturnedPaymentIds(rows) == {rows[i].payment_id : i \in 1..Len(rows)}

C14_QueryState ==
    (last.op = "get_pending_payments" /\ last.outcome = "returned")
    => /\ ReturnedPaymentIds(last.rows) = PendingOf(db, last.svc.patient_id)
       /\ Len(last.rows) = Cardinality(PendingOf(db, last.svc.patient_id))

C14_Step ==
    /\ (last.op = "none" /\ last'.op = "register_patient"
            /\ last'.commits = 1 /\ last'.rollbacks = 0)
       => \E p \in PayIds :
             /\ ~HasRow(txn, p)
             /\ p \in ReturnedPaymentIds(PendingPaymentsQuery(txn', last'.svc.patient_id))
    /\ (PayBillStep /\ last'.outcome = "returned" /\ last'.result.success)
       => \A patient \in Patients :
             last'.payment_id
                 \notin ReturnedPaymentIds(PendingPaymentsQuery(txn', patient))

C14_PendingPaymentsExact == [](C14_QueryState) /\ [][C14_Step]_vars

C14_Witness ==
    /\ last.op = "get_pending_payments" /\ last.outcome = "returned"
    /\ last.rows # <<>>
    /\ \E p \in PayIds : /\ HasRow(db, p) /\ db.payment[p].status = 1
                         /\ db.regPatient[db.payment[p].reg] = last.svc.patient_id
    /\ \E p \in PayIds : /\ HasRow(db, p) /\ db.payment[p].status = 0
                         /\ db.regPatient[db.payment[p].reg] # last.svc.patient_id

\* C15: get_waiting_list(doctor_id) returns exactly the registrations of that
\* doctor whose status is 1, ordered by registration date then time, and
\* every registration it returns has its registration fee paid.
WaitingOf(t, doctor_id) ==
    {r \in RegIds : t.regDoctor[r] = doctor_id /\ t.registration[r] = 1}

FeePaid(t, r) ==
    \E p \in PayIds : /\ t.payment[p].present /\ t.payment[p].reg = r
                      /\ t.payment[p].ptype = "Registration"
                      /\ t.payment[p].status = 1

C15_WaitingListExact ==
    (last.op = "get_waiting_list" /\ last.outcome = "returned")
    => /\ {last.rows[i].registration_id : i \in 1..Len(last.rows)}
              = WaitingOf(db, last.svc.doctor_id)
       /\ Len(last.rows) = Cardinality(WaitingOf(db, last.svc.doctor_id))
       /\ \A i \in 1..Len(last.rows) :
             /\ last.rows[i].registered_at = db.regAt[last.rows[i].registration_id]
             /\ FeePaid(db, last.rows[i].registration_id)
       /\ \A i \in 1..(Len(last.rows) - 1) :
             last.rows[i].registered_at <= last.rows[i + 1].registered_at

C15_Witness ==
    /\ last.op = "get_waiting_list" /\ last.outcome = "returned"
    /\ Len(last.rows) = 1
    /\ \E r \in RegIds : /\ db.regDoctor[r] = last.svc.doctor_id
                         /\ db.registration[r] \in {0, 2}

C15_WitnessOrdered ==
    /\ last.op = "get_waiting_list" /\ last.outcome = "returned"
    /\ Len(last.rows) = 2
    /\ last.rows[1].registered_at < last.rows[2].registered_at

\* C16: a registration's status only moves forward through 0 (unpaid),
\* 1 (awaiting consultation), 2 (completed): it is 0 after register_patient,
\* becomes 1 exactly when its Registration payment is paid, becomes 2 when
\* submit_diagnosis finishes the consultation (a submit_diagnosis that
\* returns from a non-empty drug_list leaves it at 2), and never goes back
\* to a lower value.
PaysRegistrationOf(r) ==
    /\ PayBillStep
    /\ HasRow(db, last'.payment_id)
    /\ db.payment[last'.payment_id].ptype = "Registration"
    /\ db.payment[last'.payment_id].reg = r
    /\ db.payment[last'.payment_id].status = 0
    /\ db'.payment[last'.payment_id].status = 1

DiagnosisStep(r) ==
    /\ last.op = "none" /\ last'.op = "submit_diagnosis"
    /\ last'.svc.reg_id = r

C16_Step ==
    \A r \in RegIds :
        /\ db'.registration[r] >= db.registration[r]
        /\ (db.registration[r] = NoReg /\ db'.registration[r] # NoReg)
              => (db'.registration[r] = 0 /\ last'.op = "register_patient")
        /\ (db.registration[r] = 0)
              => ((db'.registration[r] = 1) <=> PaysRegistrationOf(r))
        /\ (db.registration[r] = 0) => db'.registration[r] \in {0, 1}
        /\ (db.registration[r] = 1 /\ db'.registration[r] # 1)
              => (db'.registration[r] = 2 /\ DiagnosisStep(r))
        /\ (DiagnosisStep(r) /\ last'.outcome = "returned"
                /\ last'.svc.drug_list # <<>>)
              => db'.registration[r] = 2

LowStockOf(t, threshold) == {d \in DrugIds : StoredQuantity(t, d) < threshold}

C17_LowStockExact ==
    (last.op = "get_low_stock_drugs" /\ last.outcome = "returned")
    => LET limit == IF last.svc.arg.given THEN last.svc.arg.val ELSE 10
           returned == {last.rows[i].drug_id : i \in 1..Len(last.rows)}
       IN  /\ returned = LowStockOf(db, limit)
           /\ Len(last.rows) = Cardinality(returned)
           /\ \A i \in 1..Len(last.rows) :
                 last.rows[i].stored_quantity = StoredQuantity(db, last.rows[i].drug_id)
           /\ \A i \in 1..(Len(last.rows) - 1) :
                 last.rows[i].stored_quantity <= last.rows[i + 1].stored_quantity
           /\ \A a \in ThresholdArgs :
                 ThresholdOf(a) <= limit
                 => \A rows \in LowStockQuery(db, ThresholdOf(a)) :
                       {rows[i].drug_id : i \in 1..Len(rows)} \subseteq returned

C17_Witness ==
    /\ last.op = "get_low_stock_drugs" /\ last.outcome = "returned"
    /\ ~last.svc.arg.given
    /\ Len(last.rows) = 2
    /\ \E d \in DrugIds : StoredQuantity(db, d) = 10

\* ============================================ claims on the data management
\* C18: delete_patient, delete_doctor, delete_department and delete_drug never
\* remove a record that is still referenced (patient or doctor by a
\* registration, department by a doctor, drug by a prescription): when the
\* reference count is above 0 they return success=False without executing the
\* DELETE, and after a delete call that returns success=True no row
\* references the deleted id.
DeleteOps == {"delete_patient", "delete_doctor", "delete_department", "delete_drug"}

CountedReferences(t, op, id) ==
    IF op = "delete_patient" THEN PatientRegistrations(t, id)
    ELSE IF op = "delete_doctor" THEN DoctorRegistrations(t, id)
    ELSE IF op = "delete_department" THEN DepartmentDoctors(t, id)
    ELSE DrugPrescriptions(t, id)

AllReferences(t, op, id) ==
    IF op = "delete_department"
    THEN DepartmentDoctors(t, id) \cup DepartmentRegistrations(t, id)
    ELSE CountedReferences(t, op, id)

RowExists(t, op, id) ==
    IF op = "delete_patient" THEN id \in t.patient
    ELSE IF op = "delete_doctor" THEN DoctorExists(t, id)
    ELSE IF op = "delete_department" THEN id \in t.department
    ELSE id \in t.drug

C18_Step ==
    \A op \in DeleteOps :
        (last.op = "none" /\ last'.op = op)
        => /\ (last'.stmtErr = NoExc /\ CountedReferences(txn, op, last'.svc.id) # {})
                 => /\ last'.outcome = "returned"
                    /\ ~last'.result.success
                    /\ ~last'.svc.executed
                    /\ db' = db /\ txn' = txn
           /\ (last'.outcome = "returned" /\ last'.result.success)
                 => /\ RowExists(txn, op, last'.svc.id)
                    /\ ~RowExists(db', op, last'.svc.id)
                    /\ AllReferences(db', op, last'.svc.id) = {}
           /\ AllReferences(txn, op, last'.svc.id) # {}
                 => RowExists(db', op, last'.svc.id)

C18_State ==
    /\ \A r \in Registrations(db) :
          /\ db.regPatient[r] \in db.patient
          /\ DoctorExists(db, db.regDoctor[r])
    /\ \A d \in DoctorRows : db.doctor[d] # NoDoctor => db.doctor[d] \in db.department
    /\ DrugPrescriptions(db, 1) # {} => 1 \in db.drug

C18_ReferencedRecordsKept == [](C18_State) /\ [][C18_Step]_vars

C18_Witness ==
    /\ last.op = "delete_doctor" /\ last.outcome = "returned"
    /\ ~last.result.success /\ ~last.svc.executed
    /\ DoctorRegistrations(db, last.svc.id) # {}

C18_WitnessDeleted ==
    /\ last.op = "delete_department" /\ last.outcome = "returned"
    /\ last.result.success
    /\ \E r \in Registrations(db) : TRUE

\* C19: add_doctor with a department_id that matches no department raises
\* DatabaseError (once the check query has been answered) and performs no
\* INSERT, so no doctor row ever references a department that did not exist
\* when the doctor was added.
AddDoctorStep == last.op = "none" /\ last'.op = "add_doctor"

C19_Step ==
    /\ (AddDoctorStep /\ last'.svc.department_id \notin txn.department)
          => /\ last'.outcome = "raised"
             /\ last'.stmtErr = NoExc
                   => last'.exc = DepartmentMissing(last'.svc.department_id)
             /\ last'.svc.inserts = 0
             /\ last'.commits = 0 /\ last'.rollbacks = 0
             /\ db' = db /\ txn' = txn
    /\ \A d \in DoctorRows :
          (txn.doctor[d] = NoDoctor /\ txn'.doctor[d] # NoDoctor)
          => /\ AddDoctorStep
             /\ txn'.doctor[d] = last'.svc.department_id
             /\ txn'.doctor[d] \in txn.department

C19_AddDoctorChecksDepartment == [][C19_Step]_vars

C19_Witness ==
    /\ last.op = "add_doctor" /\ last.outcome = "raised"
    /\ last.exc.type = "DatabaseError"
    /\ last.svc.department_id \in Departments
    /\ last.svc.department_id \notin db.department

\* ================================================== claims on the routes
\* C20: /doctor/queue shows a waiting list only to a session logged in as a
\* doctor and only for that session's own user_id: a session with no user_id,
\* or whose role is not 'doctor', is redirected to home without
\* get_waiting_list being called.
C20_QueueOnlyForDoctors ==
    last.op = "doctor_queue"
    => /\ (Falsy(session.user_id) \/ session.role # "doctor")
             => /\ last.svc.response.kind = "redirect"
                /\ last.svc.response.target = "home"
                /\ ~last.svc.called
       /\ last.svc.called => ToString(last.svc.arg) = session.user_id

\* =========================================== claims settled on later reading
\* C22: in src/backend/db_util.py a successful call_procedure with a non-empty
\* params tuple returns as first component a tuple of the same length whose
\* i-th element is the value of the session variable of parameter i after the
\* call (IN parameters as passed, the OUT parameter as the procedure assigned
\* it); with empty or missing params it returns params unchanged.
C22_BackendReturnsSessionVariables ==
    (last.file = "backend/db_util" /\ last.op = "call_procedure"
        /\ last.outcome = "returned")
    => IF last.params.given /\ Len(last.params.vals) > 0
       THEN /\ last.out.given
            /\ Len(last.out.vals) = Len(last.params.vals)
            /\ \A i \in 1..Len(last.params.vals) :
                  last.out.vals[i] =
                      IF i = Len(last.params.vals) /\ last.hasOut
                      THEN last.outVal ELSE last.params.vals[i]
       ELSE last.out = last.params

C22_Witness ==
    /\ last.file = "backend/db_util" /\ last.op = "call_procedure"
    /\ last.outcome = "returned"
    /\ Len(last.params.vals) = 2 /\ last.params.vals[2] = None
    /\ last.hasOut /\ last.out.vals = <<5, 7>>

C22_WitnessNoParams ==
    /\ last.file = "backend/db_util" /\ last.op = "call_procedure"
    /\ last.outcome = "returned" /\ ~last.params.given /\ ~last.out.given

\* C23: a POST to the home route redirects by role: 'registrar' to the
\* registration page, 'doctor' to the doctor queue, 'admin' to the admin page
\* (inventory in src/backend/app.py, data management in src/system/app.py),
\* 'patient' to the patient login (src/system/app.py only); any other or
\* missing role gets the invalid-role flash and a redirect back to home.
C23_HomeRedirectsByRole ==
    last.op = "home"
    => LET role == last.svc.role
           resp == last.svc.response
           system == last.file = "system/app"
       IN  /\ resp.kind = "redirect"
           /\ role = "registrar" => (resp.target = "register" /\ resp.flashed = "none")
           /\ role = "doctor" => (resp.target = "doctor_queue" /\ resp.flashed = "none")
           /\ (role = "admin" /\ ~system)
                 => (resp.target = "admin_inventory" /\ resp.flashed = "none")
           /\ (role = "admin" /\ system)
                 => (resp.target = "admin_data_management" /\ resp.flashed = "none")
           /\ (role = "patient" /\ system)
                 => (resp.target = "patient_login" /\ resp.flashed = "none")
           /\ (role \notin {"registrar", "doctor", "admin", "patient"}
                  \/ (role = "patient" /\ ~system))
                 => (resp.target = "home" /\ resp.flashed = "invalid role")

C23_Witness ==
    /\ last.op = "home" /\ last.file = "backend/app"
    /\ last.svc.role = "patient"
    /\ last.svc.response = Redirect("home", "invalid role")

C23_WitnessSystem ==
    /\ last.op = "home" /\ last.file = "system/app"
    /\ last.svc.role = "admin"
    /\ last.svc.response.target = "admin_data_management"

\* C24: the diagnose POST includes in the submitted drug list every
\* prescription row of the form that has both a drug_id and a quantity, in
\* increasing row index order, whatever row indices the dynamic form used
\* (a form where an index is missing between two rows included).
CompleteRows(form) ==
    {i \in 1..MaxRows : /\ form[i].sent
                        /\ ~Falsy(form[i].drug_id) /\ ~Falsy(form[i].quantity)}

RowsAsDrugs(form) ==
    LET rows == Ascending(CompleteRows(form))
    IN  [k \in 1..Len(rows) |-> [drug_id |-> IntOf(form[rows[k]].drug_id),
                                 quantity |-> IntOf(form[rows[k]].quantity)]]

C24_EveryCompleteRowSubmitted ==
    (/\ last.op = "diagnose"
     /\ \A i \in CompleteRows(last.svc.form) :
           /\ IntParse(last.svc.form[i].drug_id).ok
           /\ IntParse(last.svc.form[i].quantity).ok)
    => /\ last.svc.drug_list = RowsAsDrugs(last.svc.form)
       /\ (CompleteRows(last.svc.form) # {}) => last.svc.called

\* C25: a register POST or billing POST in which a required numeric field
\* (patient_id, department_id, doctor_id; payment_id) is missing or is not an
\* integer never calls the service and is answered with the invalid-input
\* flash and a redirect back to the same page, not with the 500 handler's
\* redirect to home.
BadNumber(v) == v = Absent \/ IntOf(v) = None

C25_InvalidInputFlashed ==
    /\ (last.op = "register"
          /\ (\/ BadNumber(last.svc.form.patient_id)
              \/ BadNumber(last.svc.form.department_id)
              \/ BadNumber(last.svc.form.doctor_id)))
       => /\ ~last.svc.called
          /\ last.svc.response = Redirect("register", "Invalid input values")
    /\ (last.op = "billing" /\ BadNumber(last.svc.form.payment_id))
       => /\ ~last.svc.called
          /\ last.svc.response = Redirect("billing", "Invalid payment ID")


\* C21: the session of the system application gets a patient_id only from a
\* patient login whose stripped id_card is the id_card of a stored patient,
\* and then that patient's id; only logout takes it away. The patient portal
\* asked without a patient_id answers with a redirect to the patient login
\* and queries nothing; asked with one, it queries three times, or up to
\* the first failure, each time for that patient_id only, and what it
\* shows are that patient's records.
C21_Step ==
    /\ session'.patient_id # session.patient_id
         => \/ /\ last'.op = "patient_login"
               /\ session'.patient_id \in txn.patient
               /\ last'.svc.id_card # Absent
               /\ Strip(last'.svc.id_card) = IdCardOf(session'.patient_id)
               /\ last'.svc.response.target = "patient_portal"
            \/ /\ last'.op = "logout"
               /\ session'.patient_id = NoPatient
    /\ last'.op = "patient_login" /\ last.op = "none"
         /\ last'.svc.response.target = "patient_portal"
         => /\ session'.patient_id \in txn.patient
            /\ session'.role = "patient"

C21_State ==
    last.op = "patient_portal"
        => IF session.patient_id = NoPatient
           THEN /\ last.svc.response.kind = "redirect"
                /\ last.svc.response.target = "patient_login"
                /\ last.svc.queried = <<>>
           ELSE /\ last.svc.response.kind = "render"
                   \/ last.svc.response = ServerError
                /\ Len(last.svc.queried) \in 1..3
                /\ \A k \in 1..Len(last.svc.queried) :
                     /\ last.svc.queried[k].patient_id = session.patient_id
                     /\ last.svc.queried[k].method = PortalMethods[k]
                /\ last.svc.response = Render("patient_portal.html", "none")
                     => /\ Len(last.svc.rows) = 3
                        /\ \A k \in 1..Len(last.svc.rows[1]) :
                             txn.regPatient[last.svc.rows[1][k]] = session.patient_id
                        /\ \A m \in 2..3 : \A k \in 1..Len(last.svc.rows[m]) :
                             txn.regPatient[txn.payment[last.svc.rows[m][k]].reg]
                                 = session.patient_id

C21_PortalOnlyAfterPatientLogin == [](C21_State) /\ [][C21_Step]_vars

\* A logged-in patient is shown the portal with a registration of theirs.
C21_Witness ==
    /\ last.op = "patient_portal"
    /\ session.patient_id = 2
    /\ last.svc.response = Render("patient_portal.html", "none")
    /\ Len(last.svc.queried) = 3
    /\ last.svc.rows[1] # <<>>
    /\ last.svc.rows[3] # <<>>

\* The portal is asked without a patient login and sends the browser back.
C21_WitnessRedirected ==
    /\ last.op = "patient_portal"
    /\ session.patient_id = NoPatient
    /\ session.role = "doctor"
    /\ last.svc.response.target = "patient_login"

====
